---- MODULE Spec2Model ----
(***************************************************************************)
(* GraceQ/MPS2: the MPS container (mps.h), the tensor vector it derives    *)
(* from (TenVec / DuoVector, exercised by test_ten_vec.cc) and the         *)
(* two-site DMRG sweep executor (lanczos_dmrg_solver_impl.h).              *)
(***************************************************************************)
EXTENDS Integers, Sequences, FiniteSets, TLC

(***************************************************************************)
(* Bounds of the model.                                                    *)
(***************************************************************************)
\* Largest MPS explored for the canonical bookkeeping (sizes 1..NSites).
NSites == 3
\* Largest tensor vector explored for paging and copying (sizes 1..MaxVecSize).
MaxVecSize == 2
\* Tensor values are 0..MaxTen; 0 is the default-constructed tensor.
MaxTen == 1
\* Centralize targets explored beyond the valid range: -OutOfRange .. N-1+OutOfRange.
OutOfRange == 2
\* How many positions behind the end of the vectors may hold memory a run can
\* use (a pointer an earlier object left there) instead of dying on it.
MaxStale == 2
\* Longest chain the sweep executor is run on (chains of 2..MaxChain sites).
MaxChain == 4
\* Largest sweep_params.sweeps (1..MaxSweeps).
MaxSweeps == 2
\* The values a double takes are 0..MaxEnergy.
MaxEnergy == 1
\* Largest lancz_params.max_iterations (1..MaxIterations).
MaxIterations == 3
\* Largest dimension of a Lanczos initial state (1..MaxDim).
MaxDim == 3
\* Largest number of terms of an effective Hamiltonian term group (0..MaxTerms).
MaxTerms == 2
\* Largest number of tasks a worker is given in one dynamic phase (0..MaxTasks).
MaxTasks == 2
\* Largest number of lanczos orders a worker is sent (0..MaxOrders).
MaxOrders == 2
\* Number of workers besides the master (ranks 1..MaxWorkers).
MaxWorkers == 2
\* Largest coefficient label (labels 0..MaxCoefLabel).
MaxCoefLabel == 1
\* Longest label list of a CoefRepr given as an operand (0..MaxCoefLen).
MaxCoefLen == 2
\* Largest operator label (labels 0..MaxOpLabel).
MaxOpLabel == 1
\* Largest number of terms of an OpRepr given as an operand (0..MaxOpTerms).
MaxOpTerms == 2

(***************************************************************************)
(* Program constants.                                                      *)
(***************************************************************************)
kUncentralizedCenterIdx == -1

NONE  == "NONE"
LEFT  == "LEFT"
RIGHT == "RIGHT"
MPSTenCanoType == {NONE, LEFT, RIGHT}

kMpsPath == "mps"
kMpsTenBaseName == "mps_ten"
kGQTenFileSuffix == "gqten"

\* A size_t has 64 bits, an int 32.  A size_t is written as the integer with the
\* same bits in two's complement: 2^64 - k, which a step below 0 or the conversion
\* of the int -k gives, is written -k.  Sums and differences are then the
\* integers' own and wrap where the program's do; the order is the unsigned one,
\* in which every value written with a minus sign lies above all others.
SizeTLess(a, b) == IF (a < 0) = (b < 0) THEN a < b ELSE a >= 0

SizeTLessEq(a, b) == a = b \/ SizeTLess(a, b)

(***************************************************************************)
(* State.                                                                  *)
(***************************************************************************)
VARIABLES
  size_,            \* DuoVector: number of slots
  raw_data_,        \* DuoVector: slot i is <<>> (nullptr) or <<v>> (a tensor v)
  center_,          \* MPS::center_
  tens_cano_type_,  \* MPS::tens_cano_type_
  disk,             \* file name -> <<>> (no such file) or <<v>>
  tenvec_cp,        \* a copy-constructed TenVec (<< >> before any copy)
  ndebug,           \* the build: TRUE when assert() is compiled out
  status,           \* "ok", "aborted" (assert) or "crashed"
  lastOp,           \* the operation that produced this state
  dumpedBy,         \* the dump operation directly before the last load
  snap,             \* raw_data_ before that dump
  N_,               \* DMRGExecutor::N_
  mat_repr_mpo_,    \* site -> [rows, cols, null]: the sparse matrix of MPO tensors
  sweeps,           \* sweep_params.sweeps
  sweep,            \* the loop variable of Execute
  exec_status,      \* Executor status: "INITED", "EXEING", "FINISH"
  e0_,              \* DMRGExecutor::e0_
  lopg_vec_,        \* block length -> left operator group in memory
  ropg_vec_,        \* block length -> right operator group in memory
  left_boundary_,
  right_boundary_,
  dir_,             \* "r" or "l"
  l_site_,
  r_site_,
  hamiltonian_terms_,
  temp,             \* temp_path: <<"l" or "r", block length>> -> << >> or <<group>>
  pc,               \* where Execute stands
  sweep_i,          \* the loop variable of DMRGSweep_
  tick,             \* number of two-site updates done
  trace,            \* the steps of the sweep under way, <<step, l_site_, r_site_, dir_>>
  last_gs_eng,      \* << >> or <<lancz_res.gs_eng>> of the latest two-site update
  lanczos,          \* a call of LanczosSolver: its parameters, locals and result
  mul,              \* a call of eff_ham_terms_mul_two_site_state
  slave,            \* a DMRGMPISlaveExecutor: its members and where Execute stands
  alg               \* operands and results of the MPO generator's label algebra

mpsVars == <<size_, raw_data_, center_, tens_cano_type_, disk, tenvec_cp,
             ndebug, status, lastOp, dumpedBy, snap>>

dmrgVars == <<N_, mat_repr_mpo_, sweeps, sweep, exec_status, e0_, lopg_vec_,
              ropg_vec_, left_boundary_, right_boundary_, dir_, l_site_, r_site_,
              hamiltonian_terms_, temp, pc, sweep_i, tick, trace, last_gs_eng>>

callVars == <<lanczos, mul, slave, alg>>

Null == << >>
Ptr(v) == <<v>>
DefaultTen == 0
TenVals == 0..MaxTen

Sites == 0..(size_ - 1)

\* op: the operation; idx, file, rel: its arguments; pre: the centre before it;
\* steps, repl: the canonicalization steps it ran and the slots it reassigned.
NoOp == [op |-> "none", idx |-> 0, file |-> "", rel |-> FALSE,
         pre |-> kUncentralizedCenterIdx, steps |-> << >>, repl |-> {}]
Op(name, i, f, r) ==
  [op |-> name, idx |-> i, file |-> f, rel |-> r,
   pre |-> center_, steps |-> << >>, repl |-> {}]

(***************************************************************************)
(* GenMPSTenName (mps.h:51-54): path + "/" + base + to_string(idx) + "."   *)
(* + suffix.                                                               *)
(***************************************************************************)
Digit == <<"0", "1", "2", "3", "4", "5", "6", "7", "8", "9">>

RECURSIVE to_string(_)
to_string(n) ==
  IF n < 10 THEN Digit[n + 1] ELSE to_string(n \div 10) \o Digit[(n % 10) + 1]

GenMPSTenName_SameFile(mps_path, idx) ==
  mps_path \o "/" \o kMpsTenBaseName \o "." \o kGQTenFileSuffix

GenMPSTenName(mps_path, idx) ==
  mps_path \o "/" \o kMpsTenBaseName \o to_string(idx) \o "." \o kGQTenFileSuffix

\* The files the model keeps on disk: one per site of the container.
FileNames == DOMAIN disk

(***************************************************************************)
(* MPS canonical bookkeeping (mps.h).  The operators below work on a       *)
(* record st = [center, types, steps, repl, fault]: center_ and            *)
(* tens_cano_type_, the single-site canonicalization steps completed so    *)
(* far (<<"L", i>> or <<"R", i>>), the slots whose tensor was read and     *)
(* whose pointer was reassigned, and how the call ended early if it did    *)
(* ("assert": an assertion failed; "oob": the process died on an index     *)
(* past the end of the vectors).  n is size() and nd says whether assert() *)
(* is compiled out.  The field ub fixes what the undefined behaviour of    *)
(* the call does: the slack positions behind the end of the vectors are    *)
(* memory the run can use (they hold a pointer to a tensor, and type       *)
(* junk), any position further out kills the process, and a start_idx      *)
(* that was never assigned reads as ub.start_idx.                          *)
(***************************************************************************)
MetaOf ==
  [center |-> center_, types |-> tens_cano_type_, steps |-> << >>, repl |-> {},
   fault |-> "none", ub |-> [slack |-> 0, junk |-> NONE, start_idx |-> 0]]

\* A mutant: the access forgets to reset the centre.
Access_KeepCenter(st, n, idx) ==
  IF idx \in 0..(n - 1) THEN [st EXCEPT !.types[idx] = NONE]
  ELSE [st EXCEPT !.fault = "oob"]

\* The metadata effect of the non-const operator[] and operator() (mps.h:85-89,
\* 106-110).  Behind the end of the vectors the type is written outside
\* tens_cano_type_; center_ is reset all the same.
Access(st, n, idx) ==
  IF idx \in 0..(n - 1)
    THEN [st EXCEPT !.types[idx] = NONE, !.center = kUncentralizedCenterIdx]
    ELSE IF idx \in n..(n - 1 + st.ub.slack)
      THEN [st EXCEPT !.center = kUncentralizedCenterIdx]
      ELSE [st EXCEPT !.fault = "oob"]

\* A mutant: the step marks site_idx LEFT and leaves its right neighbour alone.
LeftCanonicalizeTen_KeepsNext(st, n, nd, site_idx) ==
  LET a == Access(st, n, site_idx)
  IN IF a.fault # "none" THEN a
     ELSE [a EXCEPT !.types[site_idx] = LEFT,
                    !.repl = @ \cup {site_idx},
                    !.steps = Append(@, <<"L", site_idx>>)]

\* LeftCanonicalizeTen_ (mps.h:240-265): site_idx is split and replaced
\* (lines 252-254) before site_idx + 1 is touched (lines 259-261).
LeftCanonicalizeTen_(st, n, nd, site_idx) ==
  IF ~nd /\ ~SizeTLess(site_idx, n - 1)
    THEN [st EXCEPT !.fault = "assert"]
    ELSE LET a == Access(st, n, site_idx)
             b == Access([a EXCEPT !.repl = @ \cup ({site_idx} \cap (0..(n - 1)))],
                         n, site_idx + 1)
         IN IF a.fault # "none" THEN a
            ELSE IF b.fault # "none" THEN b
            ELSE [b EXCEPT !.types = [i \in DOMAIN @ |->
                                        IF i = site_idx THEN LEFT
                                        ELSE IF i = site_idx + 1 THEN NONE
                                        ELSE @[i]],
                           !.repl = @ \cup ({site_idx + 1} \cap (0..(n - 1))),
                           !.steps = Append(@, <<"L", site_idx>>)]

\* RightCanonicalizeTen_ (mps.h:281-311): site_idx is split and replaced
\* (lines 288-291) before site_idx - 1 is touched (lines 305-307).
RightCanonicalizeTen_(st, n, nd, site_idx) ==
  IF ~nd /\ ~SizeTLess(0, site_idx)
    THEN [st EXCEPT !.fault = "assert"]
    ELSE LET a == Access(st, n, site_idx)
             b == Access([a EXCEPT !.repl = @ \cup ({site_idx} \cap (0..(n - 1)))],
                         n, site_idx - 1)
         IN IF a.fault # "none" THEN a
            ELSE IF b.fault # "none" THEN b
            ELSE [b EXCEPT !.types = [i \in DOMAIN @ |->
                                        IF i = site_idx THEN RIGHT
                                        ELSE IF i = site_idx - 1 THEN NONE
                                        ELSE @[i]],
                           !.repl = @ \cup ({site_idx - 1} \cap (0..(n - 1))),
                           !.steps = Append(@, <<"R", site_idx>>)]

\* The first loop of LeftCanonicalize_ (mps.h:231-235), from index i on:
\* ret = TRUE is the early return, otherwise start is start_idx.  A type read
\* behind the end of tens_cano_type_ is what the memory there holds.
RECURSIVE LeftScan(_, _, _, _)
LeftScan(st, n, i, stop_idx) ==
  IF i \notin 0..(n - 1 + st.ub.slack)
    THEN [ret |-> FALSE, start |-> i, fault |-> "oob"]
  ELSE IF (IF i \in 0..(n - 1) THEN st.types[i] ELSE st.ub.junk) # LEFT
    THEN [ret |-> FALSE, start |-> i, fault |-> "none"]
  ELSE IF i = stop_idx THEN [ret |-> TRUE, start |-> i, fault |-> "none"]
  ELSE LeftScan(st, n, i + 1, stop_idx)

\* A mutant: the scan never returns early and always starts at the left end.
LeftScanFrom_NoSkip(st, n, stop_idx) ==
  [ret |-> FALSE, start |-> 0, fault |-> "none"]

LeftScanFrom(st, n, stop_idx) == LeftScan(st, n, 0, stop_idx)

\* The second loop of LeftCanonicalize_ (mps.h:236), from index i on.
RECURSIVE LeftLoop(_, _, _, _, _)
LeftLoop(st, n, nd, i, stop_idx) ==
  IF st.fault # "none" \/ ~SizeTLessEq(i, stop_idx) THEN st
  ELSE LeftLoop(LeftCanonicalizeTen_(st, n, nd, i), n, nd, i + 1, stop_idx)

\* LeftCanonicalize_ (mps.h:228-237).
LeftCanonicalize_(st, n, nd, stop_idx) ==
  LET sc == LeftScanFrom(st, n, stop_idx)
  IN IF sc.fault # "none" THEN [st EXCEPT !.fault = sc.fault]
     ELSE IF sc.ret THEN st
     ELSE LeftLoop(st, n, nd, sc.start, stop_idx)

\* The first loop of RightCanonicalize_ (mps.h:272-276), from index i on.  When
\* the loop body never runs start_idx stays unassigned (line 271) and the
\* second loop starts from whatever it holds.
RECURSIVE RightScan(_, _, _, _, _)
RightScan(st, n, i, stop_idx, entered) ==
  IF ~SizeTLessEq(stop_idx, i)
    THEN [ret |-> FALSE, start |-> IF entered THEN i + 1 ELSE st.ub.start_idx,
          fault |-> "none"]
  ELSE IF i \notin 0..(n - 1) THEN [ret |-> FALSE, start |-> i, fault |-> "oob"]
  ELSE IF st.types[i] # RIGHT THEN [ret |-> FALSE, start |-> i, fault |-> "none"]
  ELSE IF i = stop_idx THEN [ret |-> TRUE, start |-> i, fault |-> "none"]
  ELSE RightScan(st, n, i - 1, stop_idx, TRUE)

\* The second loop of RightCanonicalize_ (mps.h:277), from index i on.
RECURSIVE RightLoop(_, _, _, _, _)
RightLoop(st, n, nd, i, stop_idx) ==
  IF st.fault # "none" \/ ~SizeTLessEq(stop_idx, i) THEN st
  ELSE RightLoop(RightCanonicalizeTen_(st, n, nd, i), n, nd, i - 1, stop_idx)

\* A mutant: the right pass always starts at the tail.
RightCanonicalize_FromTail(st, n, nd, stop_idx) ==
  RightLoop(st, n, nd, n - 1, stop_idx)

\* A mutant: the right pass is skipped.
RightCanonicalize_Skipped(st, n, nd, stop_idx) == st

\* RightCanonicalize_ (mps.h:268-278).
RightCanonicalize_(st, n, nd, stop_idx) ==
  LET sc == RightScan(st, n, n - 1, stop_idx, FALSE)
  IN IF sc.fault # "none" THEN [st EXCEPT !.fault = sc.fault]
     ELSE IF sc.ret THEN st
     ELSE RightLoop(st, n, nd, sc.start, stop_idx)

\* MPS::Centralize (mps.h:216-225).
CentralizeRun(st, n, nd, target_center) ==
  IF ~nd /\ ~(target_center >= 0) THEN [st EXCEPT !.fault = "assert"]
  ELSE
    LET s1 == IF target_center # 0
                THEN LeftCanonicalize_(st, n, nd, target_center - 1) ELSE st
        s2 == IF s1.fault # "none" THEN s1
              ELSE IF target_center # n - 1
                THEN RightCanonicalize_(s1, n, nd, target_center + 1) ELSE s1
    IN IF s2.fault # "none" THEN s2 ELSE [s2 EXCEPT !.center = target_center]

\* A mutant: the truncation reads the tensors through the const accessors and
\* leaves the metadata of its Centralize(0) in place.
TruncateLoop_ReadOnly(st, n, i) ==
  IF st.fault # "none" \/ ~SizeTLess(i, n - 1) THEN st
  ELSE [st EXCEPT !.steps = st.steps \o [k \in 1..(n - 1 - i) |-> <<"T", i + k - 1>>],
                  !.repl = @ \cup (i..(n - 1))]

\* The loop of TruncateMPS (mps.h:340-369), from bond i on: mps(i) and mps[i]
\* feed the SVD (lines 351-352), mps(i) is replaced (lines 360-361), then
\* mps(i + 1) is read and replaced (lines 366-368).
RECURSIVE TruncateLoop(_, _, _)
TruncateLoop(st, n, i) ==
  IF st.fault # "none" \/ ~SizeTLess(i, n - 1) THEN st
  ELSE LET a == Access(Access(st, n, i), n, i)
           b == Access([a EXCEPT !.steps = Append(@, <<"T", i>>),
                                 !.repl = @ \cup {i}], n, i + 1)
       IN IF a.fault # "none" THEN a
          ELSE IF b.fault # "none" THEN b
          ELSE TruncateLoop([b EXCEPT !.repl = @ \cup {i + 1}], n, i + 1)

\* TruncateMPS (mps.h:325-370): assert (line 332), Centralize(0) (line 334),
\* mps[0].Normalize() (line 335), then the loop over the bonds.
TruncateMPSRun(st, n, nd) ==
  IF ~nd /\ ~(n >= 2) THEN [st EXCEPT !.fault = "assert"]
  ELSE LET c == CentralizeRun(st, n, nd, 0)
           a == Access(c, n, 0)
       IN IF c.fault # "none" THEN c
          ELSE IF a.fault # "none" THEN a
          ELSE TruncateLoop(a, n, 0)

(***************************************************************************)
(* TenVec / DuoVector: slot paging and copying.  Their sources are not     *)
(* part of the files at hand; they follow test_ten_vec.cc and the          *)
(* container's use in mps.h.  sl is raw_data_, dk the disk.                *)
(***************************************************************************)
\* DuoVector::empty(): no slot holds a tensor (test_ten_vec.cc:73-75).
Empty(sl) == \A i \in DOMAIN sl : sl[i] = Null

\* DuoVector::dealloc(idx) (test_ten_vec.cc:73-74).
DeallocRun(sl, idx) == [sl EXCEPT ![idx] = Null]

\* A mutant: the slot is released and the file is left as it was.
DumpTenRun_NoWrite(sl, dk, idx, file, release_mem) ==
  [sl |-> IF release_mem THEN [sl EXCEPT ![idx] = Null] ELSE sl, dk |-> dk]

\* TenVec::DumpTen(idx, file, release_mem) (test_ten_vec.cc:70-72).
DumpTenRun(sl, dk, idx, file, release_mem) ==
  [sl |-> IF release_mem THEN DeallocRun(sl, idx) ELSE sl,
   dk |-> [dk EXCEPT ![file] = sl[idx]]]

\* TenVec::LoadTen(idx, file) (test_ten_vec.cc:77-79).
LoadTenRun(sl, dk, idx, file) == [sl |-> [sl EXCEPT ![idx] = dk[file]], dk |-> dk]

\* A mutant: the copy misses the last element.
TenVecCopy_DropsLast(sl) ==
  [i \in {j \in DOMAIN sl : j + 1 \in DOMAIN sl} |-> sl[i]]

\* TenVec's copy constructor (test_ten_vec.cc:58): a vector of the same size
\* holding an equal tensor at each index.
TenVecCopy(sl) == [i \in DOMAIN sl |-> sl[i]]

(***************************************************************************)
(* MPS::Dump and MPS::Load (mps.h:153-197): one DumpTen / LoadTen per      *)
(* site, in ascending order, each on the file GenMPSTenName gives.  The    *)
(* directory test and creation (mps.h:160, 178) change no tensor and are   *)
(* left out.                                                               *)
(***************************************************************************)
RECURSIVE DumpLoop(_, _, _, _, _, _)
DumpLoop(sl, dk, n, i, mps_path, release_mem) ==
  IF ~(i < n) THEN [sl |-> sl, dk |-> dk]
  ELSE LET r == DumpTenRun(sl, dk, i, GenMPSTenName(mps_path, i), release_mem)
       IN DumpLoop(r.sl, r.dk, n, i + 1, mps_path, release_mem)

\* A mutant: the release flag is not passed on.
MPSDumpRun_KeepsAll(sl, dk, n, mps_path, release_mem) ==
  DumpLoop(sl, dk, n, 0, mps_path, FALSE)

\* MPS::Dump(mps_path, release_mem) (mps.h:174-184); the const overload
\* (mps.h:159-166) is the same loop with the two-argument DumpTen.
MPSDumpRun(sl, dk, n, mps_path, release_mem) ==
  DumpLoop(sl, dk, n, 0, mps_path, release_mem)

RECURSIVE LoadLoop(_, _, _, _, _)
LoadLoop(sl, dk, n, i, mps_path) ==
  IF ~(i < n) THEN [sl |-> sl, dk |-> dk]
  ELSE LET r == LoadTenRun(sl, dk, i, GenMPSTenName(mps_path, i))
       IN LoadLoop(r.sl, r.dk, n, i + 1, mps_path)

\* MPS::Load(mps_path) (mps.h:191-197).
MPSLoadRun(sl, dk, n, mps_path) == LoadLoop(sl, dk, n, 0, mps_path)

(***************************************************************************)
(* Bookkeeping of the run itself: which operation produced the state, and, *)
(* for a load that directly follows a dump, that dump and the slots as     *)
(* they were before it.                                                    *)
(***************************************************************************)
DumpOps == {"Dump", "Dump const", "DumpTen"}
LoadOps == {"Load", "LoadTen"}
NoSnap == [i \in Sites |-> Null]

Record(rec) ==
  /\ UNCHANGED <<dmrgVars, callVars>>
  /\ lastOp' = rec
  /\ dumpedBy' = IF rec.op \in DumpOps THEN rec
                 ELSE IF rec.op \in LoadOps /\ lastOp.op \in DumpOps THEN lastOp
                 ELSE NoOp
  /\ snap' = IF rec.op \in DumpOps THEN raw_data_
             ELSE IF rec.op \in LoadOps /\ lastOp.op \in DumpOps THEN snap
             ELSE NoSnap

(***************************************************************************)
(* Operations on an MPS.                                                   *)
(***************************************************************************)
\* LocalTenT &operator[](idx) (mps.h:85-89).  DuoVector's operator[] hands out
\* the tensor of the slot, creating a default one in an empty slot
\* (test_ten_vec.cc:53-54); the caller may assign v through the reference.
OpBracket(idx, write, v) ==
  /\ status = "ok"
  /\ LET a == Access(MetaOf, size_, idx)
     IN /\ center_' = a.center
        /\ tens_cano_type_' = a.types
  /\ raw_data_' = [raw_data_ EXCEPT ![idx] =
                     IF write THEN Ptr(v)
                     ELSE IF @ = Null THEN Ptr(DefaultTen) ELSE @]
  /\ Record(Op("operator[]", idx, "", write))
  /\ UNCHANGED <<size_, disk, tenvec_cp, ndebug, status>>

\* LocalTenT *&operator()(idx) (mps.h:106-110): the caller may store another
\* pointer p in the slot.
OpParen(idx, write, p) ==
  /\ status = "ok"
  /\ LET a == Access(MetaOf, size_, idx)
     IN /\ center_' = a.center
        /\ tens_cano_type_' = a.types
  /\ raw_data_' = [raw_data_ EXCEPT ![idx] = IF write THEN p ELSE @]
  /\ Record(Op("operator()", idx, "", write))
  /\ UNCHANGED <<size_, disk, tenvec_cp, ndebug, status>>

\* const LocalTenT &operator[](idx) const (mps.h:96-98), on a slot that holds a tensor.
OpBracketConst(idx) ==
  /\ status = "ok"
  /\ raw_data_[idx] # Null
  /\ Record(Op("operator[] const", idx, "", FALSE))
  /\ UNCHANGED <<size_, raw_data_, center_, tens_cano_type_, disk, tenvec_cp,
                 ndebug, status>>

\* const LocalTenT *operator()(idx) const (mps.h:117-119).
OpParenConst(idx) ==
  /\ status = "ok"
  /\ Record(Op("operator() const", idx, "", FALSE))
  /\ UNCHANGED <<size_, raw_data_, center_, tens_cano_type_, disk, tenvec_cp,
                 ndebug, status>>

\* MPS::Centralize(target_center) (mps.h:216-225).  Every site a step works on
\* holds a tensor; each replaced slot gets the tensor the SVD and the
\* contraction produce, any value of D.  A call that runs past the end of the
\* vectors with assert() compiled out has undefined behaviour: it takes what
\* lies behind them for a tensor pointer (line 259) and dies at its use, or
\* finds a pointer an earlier object left there, goes on and reaches line 224;
\* a right pass whose first loop is not entered starts at an unassigned index
\* (below every stop index of such a pass, at the smallest of them, or beyond
\* the memory a run can use).  A call with 0 <= target_center < size() reads
\* nothing behind the vectors and enters the first loop of its right pass, so
\* one choice stands for all; a type RIGHT behind the vectors acts as NONE does.
Centralize(target_center, D) ==
  /\ status = "ok"
  /\ \E slack \in IF target_center \in Sites THEN {0} ELSE 0..MaxStale,
        junk \in IF target_center \in Sites THEN {NONE} ELSE {NONE, LEFT},
        start_idx \in IF target_center \in Sites THEN {0}
                      ELSE {0, size_ + 1, size_ + OutOfRange + MaxStale + 1} :
     LET ub == [slack |-> slack, junk |-> junk, start_idx |-> start_idx]
         r == CentralizeRun([MetaOf EXCEPT !.ub = ub], size_, ndebug, target_center)
     IN /\ \A i \in r.repl : raw_data_[i] # Null
        /\ \E f \in [r.repl -> D] :
             raw_data_' = [i \in Sites |->
                             IF i \in r.repl THEN Ptr(f[i]) ELSE raw_data_[i]]
        /\ tens_cano_type_' = r.types
        /\ \/ /\ r.fault = "none"
              /\ center_' = r.center
              /\ status' = "ok"
           \/ /\ r.fault = "assert"
              /\ center_' = r.center
              /\ status' = "aborted"
           \/ /\ r.fault = "oob"
              /\ center_' = r.center
              /\ status' = "crashed"
        /\ Record([Op("Centralize", target_center, "", FALSE)
                     EXCEPT !.steps = r.steps, !.repl = r.repl])
  /\ UNCHANGED <<size_, disk, tenvec_cp, ndebug>>

\* TruncateMPS(mps, trunc_err, Dmin, Dmax) (mps.h:325-370) on an MPS whose
\* slots all hold tensors.
TruncateMPS(D) ==
  /\ status = "ok"
  /\ \A i \in Sites : raw_data_[i] # Null
  /\ LET r == TruncateMPSRun(MetaOf, size_, ndebug)
     IN /\ \E f \in [r.repl -> D] :
             raw_data_' = [i \in Sites |->
                             IF i \in r.repl THEN Ptr(f[i]) ELSE raw_data_[i]]
        /\ tens_cano_type_' = r.types
        /\ center_' = r.center
        /\ \/ r.fault = "none" /\ status' = "ok"
           \/ r.fault = "assert" /\ status' = "aborted"
           \/ r.fault = "oob" /\ status' = "crashed"
        /\ Record([Op("TruncateMPS", 0, "", FALSE)
                     EXCEPT !.steps = r.steps, !.repl = r.repl])
  /\ UNCHANGED <<size_, disk, tenvec_cp, ndebug>>

\* MPS::Dump(mps_path, release_mem) (mps.h:174-184), every slot holding a tensor.
Dump(mps_path, release_mem) ==
  /\ status = "ok"
  /\ \A i \in Sites : raw_data_[i] # Null
  /\ LET r == MPSDumpRun(raw_data_, disk, size_, mps_path, release_mem)
     IN raw_data_' = r.sl /\ disk' = r.dk
  /\ Record(Op("Dump", 0, mps_path, release_mem))
  /\ UNCHANGED <<size_, center_, tens_cano_type_, tenvec_cp, ndebug, status>>

\* MPS::Dump(mps_path) const (mps.h:159-166).
DumpConst(mps_path) ==
  /\ status = "ok"
  /\ \A i \in Sites : raw_data_[i] # Null
  /\ LET r == MPSDumpRun(raw_data_, disk, size_, mps_path, FALSE)
     IN raw_data_' = r.sl /\ disk' = r.dk
  /\ Record(Op("Dump const", 0, mps_path, FALSE))
  /\ UNCHANGED <<size_, center_, tens_cano_type_, tenvec_cp, ndebug, status>>

\* MPS::Load(mps_path) (mps.h:191-197), every site's file being there.
Load(mps_path) ==
  /\ status = "ok"
  /\ \A i \in Sites : disk[GenMPSTenName(mps_path, i)] # Null
  /\ LET r == MPSLoadRun(raw_data_, disk, size_, mps_path)
     IN raw_data_' = r.sl /\ disk' = r.dk
  /\ Record(Op("Load", 0, mps_path, FALSE))
  /\ UNCHANGED <<size_, center_, tens_cano_type_, tenvec_cp, ndebug, status>>

\* TenVec::DumpTen(idx, file, release_mem) on a slot that holds a tensor.
DumpTen(idx, file, release_mem) ==
  /\ status = "ok"
  /\ raw_data_[idx] # Null
  /\ LET r == DumpTenRun(raw_data_, disk, idx, file, release_mem)
     IN raw_data_' = r.sl /\ disk' = r.dk
  /\ Record(Op("DumpTen", idx, file, release_mem))
  /\ UNCHANGED <<size_, center_, tens_cano_type_, tenvec_cp, ndebug, status>>

\* TenVec::LoadTen(idx, file) of a file that is there.
LoadTen(idx, file) ==
  /\ status = "ok"
  /\ disk[file] # Null
  /\ LET r == LoadTenRun(raw_data_, disk, idx, file)
     IN raw_data_' = r.sl /\ disk' = r.dk
  /\ Record(Op("LoadTen", idx, file, FALSE))
  /\ UNCHANGED <<size_, center_, tens_cano_type_, tenvec_cp, ndebug, status>>

\* DuoVector::dealloc(idx).
Dealloc(idx) ==
  /\ status = "ok"
  /\ raw_data_' = DeallocRun(raw_data_, idx)
  /\ Record(Op("dealloc", idx, "", FALSE))
  /\ UNCHANGED <<size_, center_, tens_cano_type_, disk, tenvec_cp, ndebug, status>>

\* TenVec<Tensor> tenvec_cp(tenvec) (test_ten_vec.cc:58).
CopyConstruct ==
  /\ status = "ok"
  /\ tenvec_cp' = TenVecCopy(raw_data_)
  /\ Record(Op("copy", 0, "", FALSE))
  /\ UNCHANGED <<size_, raw_data_, center_, tens_cano_type_, disk, ndebug, status>>

\* An assignment to an element of the copy.
CopyAssign(idx, v) ==
  /\ status = "ok"
  /\ idx \in DOMAIN tenvec_cp
  /\ tenvec_cp' = [tenvec_cp EXCEPT ![idx] = Ptr(v)]
  /\ Record(Op("copy[]", idx, "", TRUE))
  /\ UNCHANGED <<size_, raw_data_, center_, tens_cano_type_, disk, ndebug, status>>

(***************************************************************************)
(* Specifications of the container.                                        *)
(***************************************************************************)
\* LanczosSolver is not running.
NoSolver == lanczos = [pc |-> "none"]

NoMultiply == mul = [pc |-> "none"]

NoWorker == slave = [pc |-> "none"]

\* No label algebra takes part.
NoAlgebra == alg = [pc |-> "none"]

\* No DMRG executor has been constructed.
NoExecutor ==
  /\ N_ = 0
  /\ mat_repr_mpo_ = << >>
  /\ sweeps = 0
  /\ sweep = 0
  /\ exec_status = "none"
  /\ e0_ = 0
  /\ lopg_vec_ = << >>
  /\ ropg_vec_ = << >>
  /\ left_boundary_ = 0
  /\ right_boundary_ = 0
  /\ dir_ = "r"
  /\ l_site_ = 0
  /\ r_site_ = 0
  /\ hamiltonian_terms_ = << >>
  /\ temp = << >>
  /\ pc = "none"
  /\ sweep_i = 0
  /\ tick = 0
  /\ trace = << >>
  /\ last_gs_eng = << >>

\* MPS(site_vec) (mps.h:72-77): empty slots, uncentralized, every type NONE.
MPSInit(sizes, builds) ==
  /\ size_ \in sizes
  /\ raw_data_ = [i \in Sites |-> Null]
  /\ center_ = kUncentralizedCenterIdx
  /\ tens_cano_type_ = [i \in Sites |-> NONE]
  /\ disk = [f \in {GenMPSTenName(kMpsPath, i) : i \in Sites} |-> Null]
  /\ tenvec_cp = << >>
  /\ ndebug \in builds
  /\ status = "ok"
  /\ lastOp = NoOp
  /\ dumpedBy = NoOp
  /\ snap = NoSnap
  /\ NoExecutor
  /\ NoSolver
  /\ NoMultiply
  /\ NoWorker
  /\ NoAlgebra

vars == <<mpsVars, dmrgVars, callVars>>

\* The element accesses, Dump and Load of an MPS whose tensors take the values D.
MPSAccessNext(D) ==
  \/ \E idx \in Sites, write \in BOOLEAN, v \in D : OpBracket(idx, write, v)
  \/ \E idx \in Sites, write \in BOOLEAN, p \in {Null} \cup {Ptr(v) : v \in D} :
       OpParen(idx, write, p)
  \/ \E idx \in Sites : OpBracketConst(idx)
  \/ \E idx \in Sites : OpParenConst(idx)
  \/ \E release_mem \in BOOLEAN : Dump(kMpsPath, release_mem)
  \/ DumpConst(kMpsPath)
  \/ Load(kMpsPath)

\* An MPS used within the contract of Centralize: 0 <= target_center < size().
\* The canonical bookkeeping does not read the tensors: one tensor value is enough.
MPSNext ==
  \/ MPSAccessNext({DefaultTen})
  \/ \E target_center \in Sites : Centralize(target_center, {DefaultTen})

SpecMPS == MPSInit(1..NSites, BOOLEAN) /\ [][MPSNext]_vars

\* An MPS whose caller passes Centralize any integer.
MPSAnyNext ==
  \/ MPSAccessNext({DefaultTen})
  \/ \E target_center \in (0 - OutOfRange)..(size_ - 1 + OutOfRange) :
       Centralize(target_center, {DefaultTen})

SpecMPSAny == MPSInit(1..NSites, BOOLEAN) /\ [][MPSAnyNext]_vars

\* The MPS under its own operations and TruncateMPS.
TruncateNext ==
  \/ MPSNext
  \/ TruncateMPS({DefaultTen})

SpecTruncate == MPSInit(1..NSites, BOOLEAN) /\ [][TruncateNext]_vars

\* A TenVec paged slot by slot and as a whole MPS (test_ten_vec.cc:65-83,
\* mps.h:153-197).
IONext ==
  \/ \E idx \in Sites, v \in TenVals : OpBracket(idx, TRUE, v)
  \/ \E idx \in Sites, file \in FileNames, release_mem \in BOOLEAN :
       DumpTen(idx, file, release_mem)
  \/ \E idx \in Sites, file \in FileNames : LoadTen(idx, file)
  \/ \E idx \in Sites : Dealloc(idx)
  \/ \E release_mem \in BOOLEAN : Dump(kMpsPath, release_mem)
  \/ DumpConst(kMpsPath)
  \/ Load(kMpsPath)

SpecIO == MPSInit(1..MaxVecSize, {FALSE}) /\ [][IONext]_vars

\* A TenVec and a copy of it (test_ten_vec.cc:52-63).
CopyNext ==
  \/ \E idx \in Sites, v \in TenVals : OpBracket(idx, TRUE, v)
  \/ \E idx \in Sites : Dealloc(idx)
  \/ CopyConstruct
  \/ \E idx \in Sites, v \in TenVals : CopyAssign(idx, v)

SpecCopy == MPSInit(1..MaxVecSize, {FALSE}) /\ [][CopyNext]_vars

(***************************************************************************)
(* Properties of the container.                                            *)
(***************************************************************************)
\* C1: a non-const operator[] or operator() on position idx sets that position's
\* canonical type to NONE and the centre to uncentralized and leaves every other
\* position's type as it was; the const overloads change neither the centre nor
\* any type.
C1_AccessFrame ==
  [][ /\ lastOp'.op \in {"operator[]", "operator()"} =>
           /\ center_' = kUncentralizedCenterIdx
           /\ tens_cano_type_'[lastOp'.idx] = NONE
           /\ \A j \in Sites \ {lastOp'.idx} :
                tens_cano_type_'[j] = tens_cano_type_[j]
      /\ lastOp'.op \in {"operator[] const", "operator() const"} =>
           /\ center_' = center_
           /\ tens_cano_type_' = tens_cano_type_ ]_vars

\* A centred MPS was accessed mutably: the centre is gone, a canonical
\* neighbour is still canonical.
C1_Witness ==
  /\ lastOp.op \in {"operator[]", "operator()"}
  /\ lastOp.pre # kUncentralizedCenterIdx
  /\ center_ = kUncentralizedCenterIdx
  /\ tens_cano_type_[lastOp.idx] = NONE
  /\ \E j \in Sites : tens_cano_type_[j] = LEFT
  /\ \E j \in Sites : tens_cano_type_[j] = RIGHT

\* C2: whenever the centre is set to c, every position left of c has type LEFT
\* and every position right of c has type RIGHT.
C2_CanonicalSides ==
  center_ # kUncentralizedCenterIdx =>
    \A i \in Sites :
      /\ i < center_ => tens_cano_type_[i] = LEFT
      /\ i > center_ => tens_cano_type_[i] = RIGHT

\* A centre in the middle that has survived a Dump and a Load.
C2_Witness ==
  /\ size_ >= 3
  /\ center_ = 1
  /\ lastOp.op = "Load"
  /\ tens_cano_type_[0] = LEFT
  /\ tens_cano_type_[2] = RIGHT

\* C3: the centre is uncentralized or an index of the container, whatever
\* integer Centralize is called with.
C3_CenterInRange ==
  center_ = kUncentralizedCenterIdx \/ center_ \in 0..(size_ - 1)

\* The steps the description of Centralize asks for: sites s..t-1 left to right,
\* s the leftmost position below t that is not LEFT, then sites e..t+1 right to
\* left, e the rightmost position above t that is not RIGHT.
NotLeft(types, t) == {i \in 0..(t - 1) : types[i] # LEFT}
NotRight(types, n, t) == {i \in (t + 1)..(n - 1) : types[i] # RIGHT}
MinOf(S) == CHOOSE x \in S : \A y \in S : x <= y
MaxOf(S) == CHOOSE x \in S : \A y \in S : x >= y
FirstLeft(types, t) == IF NotLeft(types, t) = {} THEN t ELSE MinOf(NotLeft(types, t))
LastRight(types, n, t) ==
  IF NotRight(types, n, t) = {} THEN t ELSE MaxOf(NotRight(types, n, t))
ExpectedSteps(types, n, t) ==
  [k \in 1..(t - FirstLeft(types, t)) |-> <<"L", FirstLeft(types, t) + k - 1>>]
  \o [k \in 1..(LastRight(types, n, t) - t) |-> <<"R", LastRight(types, n, t) - k + 1>>]

\* C4: Centralize(t), 0 <= t < N, executes exactly the left steps s..t-1 in
\* ascending order and then the right steps e..t+1 in descending order, replaces
\* no tensor left of s or right of e, and returns with the centre at t.
C4_CentralizeSteps ==
  [][ lastOp'.op = "Centralize" =>
        LET t == lastOp'.idx
            s == FirstLeft(tens_cano_type_, t)
            e == LastRight(tens_cano_type_, size_, t)
        IN /\ lastOp'.steps = ExpectedSteps(tens_cano_type_, size_, t)
           /\ center_' = t
           /\ \A i \in Sites : (i < s \/ i > e) =>
                /\ i \notin lastOp'.repl
                /\ raw_data_'[i] = raw_data_[i] ]_vars

\* A Centralize to the middle that ran a left step and then a right step.
C4_Witness ==
  /\ lastOp.op = "Centralize"
  /\ lastOp.idx = 1
  /\ lastOp.steps = << <<"L", 0>>, <<"R", 2>> >>
  /\ lastOp.repl = {0, 1, 2}
  /\ center_ = 1

\* C5: Centralize(t) on an MPS whose centre is t executes no step, replaces no
\* tensor and leaves the centre and every type as they were.
C5_CentralizeIdempotent ==
  [][ (lastOp'.op = "Centralize" /\ center_ = lastOp'.idx) =>
        /\ lastOp'.steps = << >>
        /\ lastOp'.repl = {}
        /\ raw_data_' = raw_data_
        /\ center_' = center_
        /\ tens_cano_type_' = tens_cano_type_ ]_vars

\* Centralize(1) was called on an MPS of three sites centred at 1.
C5_Witness ==
  /\ lastOp.op = "Centralize"
  /\ lastOp.pre = lastOp.idx
  /\ lastOp.idx = 1
  /\ size_ = 3
  /\ lastOp.steps = << >>
  /\ center_ = 1

\* C6: Load directly after Dump on the same path gives every slot the tensor it
\* held when dumped, and LoadTen(j, f) directly after DumpTen(i, f) gives slot j
\* the tensor slot i held.
C6_DumpLoadRoundTrip ==
  /\ (lastOp.op = "Load" /\ dumpedBy.op \in {"Dump", "Dump const"}
        /\ lastOp.file = dumpedBy.file) =>
       \A i \in Sites : raw_data_[i] = snap[i]
  /\ (lastOp.op = "LoadTen" /\ dumpedBy.op = "DumpTen"
        /\ lastOp.file = dumpedBy.file) =>
       raw_data_[lastOp.idx] = snap[dumpedBy.idx]

\* Sites holding different tensors were dumped with release and loaded back.
C6_Witness ==
  /\ lastOp.op = "Load"
  /\ dumpedBy.op = "Dump"
  /\ dumpedBy.rel
  /\ size_ >= 2
  /\ snap[0] # snap[1]
  /\ \A i \in Sites : raw_data_[i] # Null /\ raw_data_[i] = snap[i]

\* C7: DumpTen(i, file, release) writes slot i to file; it leaves slot i empty
\* when release is true and untouched otherwise; no other slot and no other file
\* changes, so the container is empty afterwards only if every other slot was
\* empty already.  MPS::Dump(path, release) does so for every site.
C7_DumpTenFrame ==
  [][ /\ lastOp'.op = "DumpTen" =>
           LET i == lastOp'.idx
               f == lastOp'.file
           IN /\ disk'[f] = raw_data_[i]
              /\ \A g \in FileNames \ {f} : disk'[g] = disk[g]
              /\ raw_data_'[i] = IF lastOp'.rel THEN Null ELSE raw_data_[i]
              /\ \A j \in Sites \ {i} : raw_data_'[j] = raw_data_[j]
              /\ Empty(raw_data_') =>
                   lastOp'.rel /\ \A j \in Sites \ {i} : raw_data_[j] = Null
      /\ lastOp'.op = "Dump" =>
           /\ \A i \in Sites : disk'[GenMPSTenName(lastOp'.file, i)] = raw_data_[i]
           /\ lastOp'.rel => Empty(raw_data_')
           /\ ~lastOp'.rel => raw_data_' = raw_data_ ]_vars

\* A slot was dumped with release while another slot stays resident.
C7_Witness ==
  /\ lastOp.op = "DumpTen"
  /\ lastOp.rel
  /\ raw_data_[lastOp.idx] = Null
  /\ disk[lastOp.file] # Null
  /\ \E j \in Sites : raw_data_[j] # Null
  /\ ~Empty(raw_data_)

\* C8: the copy of a TenVec of size n has size n and at every index a tensor
\* equal to the source's, and the source is unchanged.
C8_CopyEqualsSource ==
  [][ lastOp'.op = "copy" =>
        /\ Cardinality(DOMAIN tenvec_cp') = size_
        /\ \A i \in Sites : i \in DOMAIN tenvec_cp' /\ tenvec_cp'[i] = raw_data_[i]
        /\ raw_data_' = raw_data_ ]_vars

\* A vector of slots holding different tensors was copied.
C8_Witness ==
  /\ lastOp.op = "copy"
  /\ size_ >= 2
  /\ \A i \in Sites : raw_data_[i] # Null /\ tenvec_cp[i] = raw_data_[i]
  /\ raw_data_[0] # raw_data_[1]

(***************************************************************************)
(* The two-site DMRG sweep executor (lanczos_dmrg_solver_impl.h).          *)
(*                                                                         *)
(* A site tensor is named by the two-site update that assigned it and by   *)
(* the factor of the SVD it is: <<0, "init">> is a tensor the MPS files    *)
(* hold before Execute, <<k, "U">> the u the k-th update of the run        *)
(* stored.  An operator group is a record [n, of, ok]:                     *)
(* n tensors, of the sequence of site tensors it was grown from (in the    *)
(* order of growth), ok whether every growth found as many operators as    *)
(* the MPO tensor has rows (left) or columns (right).                      *)
(***************************************************************************)
Doubles == 0..MaxEnergy

\* The tensor every MPS file holds before Execute.
InitialTen == <<0, "init">>

\* A mutant: the two factors take each other's place.
UpdatedTens_Swapped(k, dir) ==
  IF dir = "r" THEN [l |-> <<k, "S*Vt">>, r |-> <<k, "U">>]
  ELSE [l |-> <<k, "Vt">>, r |-> <<k, "U*S">>]

\* The tensors the k-th two-site update stores at l_site_ and r_site_
\* (lanczos_dmrg_solver_impl.h:413-423): u and s*vt when moving right, u*s and
\* vt when moving left.
UpdatedTens(k, dir) ==
  IF dir = "r" THEN [l |-> <<k, "U">>, r |-> <<k, "S*Vt">>]
  ELSE [l |-> <<k, "U*S">>, r |-> <<k, "Vt">>]

\* A mutant: the grown group replaces the group it was grown from.
GrownBlockLen_InPlace(dir, l_block_len, r_block_len) ==
  IF dir = "r" THEN l_block_len ELSE r_block_len

\* The block length of the group a two-site update grows
\* (lanczos_dmrg_solver_impl.h:434, 438): l_block_len + 1 when moving right,
\* r_block_len + 1 when moving left.
GrownBlockLen(dir, l_block_len, r_block_len) ==
  IF dir = "r" THEN l_block_len + 1 ELSE r_block_len + 1

\* A default-constructed or cleared group.
EmptyGroup == [n |-> 0, of |-> << >>, ok |-> FALSE]

\* A mutant: clear() leaves the group as it is.
ClearGroup_Keeps(grp) == grp

\* clear() of an operator group (lanczos_dmrg_solver_impl.h:483-484).
ClearGroup(grp) == EmptyGroup

\* A mutant: the term group is not cleared.
ClearTerms_Keeps(terms) == terms

\* A mutant: the first term of the previous bond survives the clear.
ClearTerms_KeepsFirst(terms) == IF terms = << >> THEN << >> ELSE <<terms[1]>>

\* hamiltonian_terms_.clear() (lanczos_dmrg_solver_impl.h:462).
ClearTerms(terms) == << >>

GroupKeys(n) == {"l", "r"} \X (0..(n - 1))

\* The matrix representations the executor is run on: bond dimension 1
\* throughout ("identity"), or 2 on the inner bonds with the lower-left entry
\* of the inner matrices null ("triangular").
MPOKinds == {"identity", "triangular"}

BondDim(n, kind, b) == IF b = 0 \/ b = n \/ kind = "identity" THEN 1 ELSE 2

MatReprMPO(n, kind) ==
  [s \in 0..(n - 1) |->
     [rows |-> BondDim(n, kind, s),
      cols |-> BondDim(n, kind, s + 1),
      null |-> IF BondDim(n, kind, s) = 2 /\ BondDim(n, kind, s + 1) = 2
                 THEN {<<1, 0>>} ELSE {}]]

\* SparMat::IsNull(i, j).
IsNull(W, i, j) == <<i, j>> \in W.null

\* UpdateLeftBlockOps (declared lanczos_dmrg_solver_impl.h:245-250): one
\* operator per column of the MPO matrix, grown from lopg and the site tensor.
UpdateLeftBlockOps(lopg, ten, W) ==
  [n |-> W.cols, of |-> Append(lopg.of, ten[1]), ok |-> lopg.ok /\ lopg.n = W.rows]

\* UpdateRightBlockOps (declared lanczos_dmrg_solver_impl.h:238-243): one
\* operator per row of the MPO matrix.
UpdateRightBlockOps(ropg, ten, W) ==
  [n |-> W.rows, of |-> Append(ropg.of, ten[1]), ok |-> ropg.ok /\ ropg.n = W.cols]

\* ReadOperatorGroup into a group constructed with n operators
\* (lanczos_dmrg_solver_impl.h:523-524).
ReadOperatorGroup(tp, side, block_len, n) ==
  LET g == tp[<<side, block_len>>][1]
  IN [n |-> n, of |-> g.of, ok |-> g.ok /\ g.n = n]

\* A mutant: nothing is written.
WriteOperatorGroup_Nothing(tp, side, block_len, grp) == tp

\* WriteOperatorGroup (lanczos_dmrg_solver_impl.h:492, 500).
WriteOperatorGroup(tp, side, block_len, grp) ==
  [tp EXCEPT ![<<side, block_len>>] = <<grp>>]

\* The temp directory DMRGInit_ leaves behind for the boundaries lb < rb: the
\* left group of block length lb and the right groups of block lengths
\* 0..N-2-lb, each grown from the tensors the MPS files hold.
InitialTemp(n, W, lb) ==
  [key \in GroupKeys(n) |->
     IF key[1] = "l"
       THEN IF key[2] = lb
              THEN <<[n |-> W[lb].rows, of |-> [k \in 1..lb |-> InitialTen],
                      ok |-> TRUE]>>
              ELSE Null
       ELSE IF key[2] <= n - 2 - lb
              THEN <<[n |-> W[n - 1 - key[2]].cols,
                      of |-> [k \in 1..key[2] |-> InitialTen], ok |-> TRUE]>>
              ELSE Null]

\* The loop conditions of DMRGSweep_ (lanczos_dmrg_solver_impl.h:349, 359).
RightLoopCond_Inclusive(i, lb, rb) == SizeTLessEq(i, rb - 1)

RightLoopCond(i, lb, rb) == SizeTLess(i, rb - 1)

LeftLoopCond(i, lb, rb) == SizeTLess(lb + 1, i)

\* The terms SetEffectiveHamiltonianTerms_ pushes
\* (lanczos_dmrg_solver_impl.h:463-475), in the order of the three loops: each
\* term points at operator i of the left group, entries (i, j) and (j, k) of the
\* two MPO matrices and operator k of the right group.
EffectiveHamiltonianTerms(lopg_size, W, l_site, r_site, n) ==
  LET c1 == W[l_site].cols
      c2 == W[r_site].cols
      ijk == [t \in 1..(lopg_size * c1 * c2) |->
                [i |-> (t - 1) \div (c1 * c2), j |-> ((t - 1) \div c2) % c1,
                 k |-> (t - 1) % c2]]
      kept == SelectSeq(ijk, LAMBDA x : /\ ~IsNull(W[l_site], x.i, x.j)
                                        /\ ~IsNull(W[r_site], x.j, x.k))
  IN [t \in 1..Len(kept) |->
        [lop |-> <<l_site, kept[t].i>>,
         lmpo |-> <<l_site, kept[t].i, kept[t].j>>,
         rmpo |-> <<r_site, kept[t].j, kept[t].k>>,
         rop |-> <<(n - 1) - r_site, kept[t].k>>]]

\* What the container-only operations leave alone.
mpsHistVars == <<tenvec_cp, ndebug, status, lastOp, dumpedBy, snap>>

Step(name) == <<name, l_site_, r_site_, dir_>>

\* A tensor primitive or a file read failed: the run ends there.
Fail(name) ==
  /\ pc' = "failed"
  /\ trace' = Append(trace, Step(name))
  /\ UNCHANGED <<mpsVars, callVars, N_, mat_repr_mpo_, sweeps, sweep, exec_status, e0_,
                 lopg_vec_, ropg_vec_, left_boundary_, right_boundary_, dir_,
                 l_site_, r_site_, hamiltonian_terms_, temp, sweep_i, tick,
                 last_gs_eng>>

\* DMRGExecutor::Execute up to the sweep loop (lanczos_dmrg_solver_impl.h:326-332).
\* DMRGInit_ settles the boundaries lb < rb inside the chain, leaves the temp
\* directory InitialTemp describes and no site tensor in memory.
ExecuteBegin(lb, rb) ==
  /\ pc = "constructed"
  /\ exec_status' = "EXEING"
  /\ left_boundary_' = lb
  /\ right_boundary_' = rb
  /\ temp' = InitialTemp(N_, mat_repr_mpo_, lb)
  /\ raw_data_' = LoadTenRun(raw_data_, disk, lb + 1,
                             GenMPSTenName(kMpsPath, lb + 1)).sl
  /\ sweep' = 1
  /\ pc' = "sweep_loop"
  /\ UNCHANGED <<size_, center_, tens_cano_type_, disk, mpsHistVars, callVars, N_,
                 mat_repr_mpo_, sweeps, e0_, lopg_vec_, ropg_vec_, dir_, l_site_,
                 r_site_, hamiltonian_terms_, sweep_i, tick, trace, last_gs_eng>>

\* The head of the sweep loop of Execute (lanczos_dmrg_solver_impl.h:333): it
\* enters DMRGSweep_ (line 348), or leaves the loop, pages the resident site
\* tensor out and finishes (lines 340-341).
ExecuteSweepLoop ==
  /\ pc = "sweep_loop"
  /\ IF sweep <= sweeps
       THEN /\ dir_' = "r"
            /\ sweep_i' = left_boundary_
            /\ trace' = << >>
            /\ pc' = "r_loop"
            /\ UNCHANGED <<mpsVars, callVars, N_, mat_repr_mpo_, sweeps, sweep, exec_status,
                           e0_, lopg_vec_, ropg_vec_, left_boundary_,
                           right_boundary_, l_site_, r_site_, hamiltonian_terms_,
                           temp, tick, last_gs_eng>>
       ELSE LET idx == left_boundary_ + 1
            IN IF raw_data_[idx] = Null THEN Fail("finish")
               ELSE /\ LET r == DumpTenRun(raw_data_, disk, idx,
                                           GenMPSTenName(kMpsPath, idx), TRUE)
                       IN raw_data_' = r.sl /\ disk' = r.dk
                    /\ exec_status' = "FINISH"
                    /\ pc' = "done"
                    /\ UNCHANGED <<size_, center_, tens_cano_type_, mpsHistVars, callVars, N_,
                                   mat_repr_mpo_, sweeps, sweep, e0_, lopg_vec_,
                                   ropg_vec_, left_boundary_, right_boundary_, dir_,
                                   l_site_, r_site_, hamiltonian_terms_, temp,
                                   sweep_i, tick, trace, last_gs_eng>>

\* The head of the right-moving loop of DMRGSweep_
\* (lanczos_dmrg_solver_impl.h:349-351); when it ends the left-moving loop is
\* set up (lines 358-359).
SweepRightLoop ==
  /\ pc = "r_loop"
  /\ IF RightLoopCond(sweep_i, left_boundary_, right_boundary_)
       THEN /\ l_site_' = sweep_i
            /\ r_site_' = sweep_i + 1
            /\ pc' = "load"
            /\ UNCHANGED <<dir_, sweep_i>>
       ELSE /\ dir_' = "l"
            /\ sweep_i' = right_boundary_
            /\ pc' = "l_loop"
            /\ UNCHANGED <<l_site_, r_site_>>
  /\ UNCHANGED <<mpsVars, callVars, N_, mat_repr_mpo_, sweeps, sweep, exec_status, e0_,
                 lopg_vec_, ropg_vec_, left_boundary_, right_boundary_,
                 hamiltonian_terms_, temp, tick, trace, last_gs_eng>>

\* The head of the left-moving loop of DMRGSweep_
\* (lanczos_dmrg_solver_impl.h:359-361); when it ends DMRGSweep_ returns e0_,
\* Execute stores it in e0_ and counts the sweep (lines 367, 336, 333).
SweepLeftLoop ==
  /\ pc = "l_loop"
  /\ IF LeftLoopCond(sweep_i, left_boundary_, right_boundary_)
       THEN /\ l_site_' = sweep_i - 1
            /\ r_site_' = sweep_i
            /\ pc' = "load"
            /\ UNCHANGED <<sweep, e0_>>
       ELSE /\ e0_' = e0_
            /\ sweep' = sweep + 1
            /\ pc' = "sweep_loop"
            /\ UNCHANGED <<l_site_, r_site_>>
  /\ UNCHANGED <<mpsVars, callVars, N_, mat_repr_mpo_, sweeps, exec_status, lopg_vec_,
                 ropg_vec_, left_boundary_, right_boundary_, dir_,
                 hamiltonian_terms_, temp, sweep_i, tick, trace, last_gs_eng>>

\* The bond is the first of its pass (lanczos_dmrg_solver_impl.h:517, 540).
AtEdge(dir, l_site, r_site, lb, rb) ==
  IF dir = "r" THEN l_site = lb ELSE r_site = rb

\* A mutant: the left site is loaded at every bond.
LoadedSite_Left(dir, l_site, r_site, lb, rb) == l_site

\* The site tensor LoadRelatedTensSweep_ loads
\* (lanczos_dmrg_solver_impl.h:518, 530, 541, 553).
LoadedSite(dir, l_site, r_site, lb, rb) ==
  IF dir = "r" THEN (IF AtEdge(dir, l_site, r_site, lb, rb) THEN l_site ELSE r_site)
  ELSE (IF AtEdge(dir, l_site, r_site, lb, rb) THEN r_site ELSE l_site)

\* A mutant: the groups of both sides are removed after reading.
RemovedKeys_Both(dir, lblock_len, rblock_len) ==
  {<<"l", lblock_len>>, <<"r", rblock_len>>}

\* The files ReadAndRemoveOperatorGroup unlinks
\* (lanczos_dmrg_solver_impl.h:528, 536, 551, 559).
RemovedKeys(dir, lblock_len, rblock_len) ==
  IF dir = "r" THEN {<<"r", rblock_len>>} ELSE {<<"l", lblock_len>>}

\* DMRGExecutor::LoadRelatedTensSweep_ (lanczos_dmrg_solver_impl.h:509-567).
LoadRelatedTensSweep_ ==
  /\ pc = "load"
  /\ LET edge == AtEdge(dir_, l_site_, r_site_, left_boundary_, right_boundary_)
         site == LoadedSite(dir_, l_site_, r_site_, left_boundary_, right_boundary_)
         lblock_len == l_site_
         rblock_len == (N_ - 1) - r_site_
         read_l == dir_ = "l" \/ edge
         read_r == dir_ = "r" \/ edge
         file == GenMPSTenName(kMpsPath, site)
     IN IF \/ disk[file] = Null
           \/ read_l /\ temp[<<"l", lblock_len>>] = Null
           \/ read_r /\ temp[<<"r", rblock_len>>] = Null
          THEN Fail("load")
          ELSE /\ raw_data_' = LoadTenRun(raw_data_, disk, site, file).sl
               /\ lopg_vec_' =
                    IF read_l
                      THEN [lopg_vec_ EXCEPT ![lblock_len] =
                              ReadOperatorGroup(temp, "l", lblock_len,
                                                mat_repr_mpo_[l_site_].rows)]
                      ELSE lopg_vec_
               /\ ropg_vec_' =
                    IF read_r
                      THEN [ropg_vec_ EXCEPT ![rblock_len] =
                              ReadOperatorGroup(temp, "r", rblock_len,
                                                mat_repr_mpo_[r_site_].cols)]
                      ELSE ropg_vec_
               \* ReadAndRemoveOperatorGroup: "r" when moving right, "l" when
               \* moving left.
               /\ temp' = [key \in DOMAIN temp |->
                             IF key \in RemovedKeys(dir_, lblock_len, rblock_len)
                               THEN Null ELSE temp[key]]
               /\ trace' = Append(trace, Step("load"))
               /\ pc' = "assemble"
               /\ UNCHANGED <<size_, center_, tens_cano_type_, disk, mpsHistVars, callVars,
                              N_, mat_repr_mpo_, sweeps, sweep, exec_status, e0_,
                              left_boundary_, right_boundary_, dir_, l_site_,
                              r_site_, hamiltonian_terms_, sweep_i, tick,
                              last_gs_eng>>

\* DMRGExecutor::SetEffectiveHamiltonianTerms_ (lanczos_dmrg_solver_impl.h:460-476).
SetEffectiveHamiltonianTerms_ ==
  /\ pc = "assemble"
  /\ hamiltonian_terms_' =
       ClearTerms(hamiltonian_terms_)
         \o EffectiveHamiltonianTerms(lopg_vec_[l_site_].n, mat_repr_mpo_, l_site_,
                                      r_site_, N_)
  /\ trace' = Append(trace, Step("assemble"))
  /\ pc' = "update"
  /\ UNCHANGED <<mpsVars, callVars, N_, mat_repr_mpo_, sweeps, sweep, exec_status, e0_,
                 lopg_vec_, ropg_vec_, left_boundary_, right_boundary_, dir_,
                 l_site_, r_site_, temp, sweep_i, tick, last_gs_eng>>

\* DMRGExecutor::TwoSiteUpdate_ (lanczos_dmrg_solver_impl.h:369-458) and the
\* assignment of its result (lines 354, 364).  The Lanczos solver returns some
\* energy gs_eng; both site tensors are accessed through the non-const
\* operator[] and reassigned; the environment of the side left behind grows by
\* one site.
TwoSiteUpdate_ ==
  /\ pc = "update"
  /\ IF raw_data_[l_site_] = Null \/ raw_data_[r_site_] = Null
       THEN Fail("update")
       ELSE \E gs_eng \in Doubles :
              LET a == Access(Access(MetaOf, size_, l_site_), size_, r_site_)
                  l_block_len == l_site_
                  r_block_len == N_ - 1 - r_site_
                  new == UpdatedTens(tick + 1, dir_)
                  sl == [raw_data_ EXCEPT ![l_site_] = Ptr(new.l),
                                          ![r_site_] = Ptr(new.r)]
              IN /\ center_' = a.center
                 /\ tens_cano_type_' = a.types
                 /\ raw_data_' = sl
                 /\ tick' = tick + 1
                 /\ lopg_vec_' =
                      IF dir_ = "r"
                        THEN [lopg_vec_ EXCEPT
                                ![GrownBlockLen(dir_, l_block_len, r_block_len)] =
                                UpdateLeftBlockOps(lopg_vec_[l_block_len],
                                                   sl[l_site_],
                                                   mat_repr_mpo_[l_site_])]
                        ELSE lopg_vec_
                 /\ ropg_vec_' =
                      IF dir_ = "l"
                        THEN [ropg_vec_ EXCEPT
                                ![GrownBlockLen(dir_, l_block_len, r_block_len)] =
                                UpdateRightBlockOps(ropg_vec_[r_block_len],
                                                    sl[r_site_],
                                                    mat_repr_mpo_[r_site_])]
                        ELSE ropg_vec_
                 /\ e0_' = gs_eng
                 /\ last_gs_eng' = <<gs_eng>>
                 /\ trace' = Append(trace, Step("update"))
                 /\ pc' = "dump"
                 /\ UNCHANGED <<size_, disk, mpsHistVars, callVars, N_, mat_repr_mpo_, sweeps,
                                sweep, exec_status, left_boundary_, right_boundary_,
                                dir_, l_site_, r_site_, hamiltonian_terms_, temp,
                                sweep_i>>

\* DMRGExecutor::DumpRelatedTensSweep_ (lanczos_dmrg_solver_impl.h:478-507) and
\* the step of the loop under way (lines 349, 359).
DumpRelatedTensSweep_ ==
  /\ pc = "dump"
  /\ LET lopg == [lopg_vec_ EXCEPT ![l_site_] = ClearGroup(@)]
         ropg == [ropg_vec_ EXCEPT ![(N_ - 1) - r_site_] = ClearGroup(@)]
         idx == IF dir_ = "r" THEN l_site_ ELSE r_site_
     IN IF raw_data_[idx] = Null THEN Fail("dump")
        ELSE /\ lopg_vec_' = lopg
             /\ ropg_vec_' = ropg
             /\ LET r == DumpTenRun(raw_data_, disk, idx,
                                    GenMPSTenName(kMpsPath, idx), TRUE)
                IN raw_data_' = r.sl /\ disk' = r.dk
             /\ temp' = IF dir_ = "r"
                          THEN WriteOperatorGroup(temp, "l", r_site_, lopg[r_site_])
                          ELSE WriteOperatorGroup(temp, "r", N_ - 1 - l_site_,
                                                  ropg[N_ - 1 - l_site_])
             /\ trace' = Append(trace, Step("dump"))
             /\ sweep_i' = IF dir_ = "r" THEN sweep_i + 1 ELSE sweep_i - 1
             /\ pc' = IF dir_ = "r" THEN "r_loop" ELSE "l_loop"
             /\ UNCHANGED <<size_, center_, tens_cano_type_, mpsHistVars, callVars, N_,
                            mat_repr_mpo_, sweeps, sweep, exec_status, e0_,
                            left_boundary_, right_boundary_, dir_, l_site_,
                            r_site_, hamiltonian_terms_, tick, last_gs_eng>>

\* DMRGExecutor's constructor (lanczos_dmrg_solver_impl.h:295-315) on a chain
\* whose site tensors are stored under mps_path.  e0_ is given no value by the
\* constructor: it holds any double.  The boundaries and the two sites are
\* written before they are first read.
ExecutorInit ==
  /\ size_ \in 2..MaxChain
  /\ raw_data_ = [i \in Sites |-> Null]
  /\ center_ = kUncentralizedCenterIdx
  /\ tens_cano_type_ = [i \in Sites |-> NONE]
  /\ disk = [f \in {GenMPSTenName(kMpsPath, i) : i \in Sites} |-> Ptr(InitialTen)]
  /\ tenvec_cp = << >>
  /\ ndebug = FALSE
  /\ status = "ok"
  /\ lastOp = NoOp
  /\ dumpedBy = NoOp
  /\ snap = NoSnap
  /\ N_ = size_
  /\ mat_repr_mpo_ \in {MatReprMPO(N_, kind) : kind \in MPOKinds}
  /\ sweeps \in 1..MaxSweeps
  /\ sweep = 0
  /\ exec_status = "INITED"
  /\ e0_ \in Doubles
  /\ lopg_vec_ = [p \in 0..(N_ - 1) |-> EmptyGroup]
  /\ ropg_vec_ = [p \in 0..(N_ - 1) |-> EmptyGroup]
  /\ left_boundary_ = 0
  /\ right_boundary_ = 0
  /\ dir_ = "r"
  /\ l_site_ = 0
  /\ r_site_ = 0
  /\ hamiltonian_terms_ = << >>
  /\ temp = [key \in GroupKeys(N_) |-> Null]
  /\ pc = "constructed"
  /\ sweep_i = 0
  /\ tick = 0
  /\ trace = << >>
  /\ last_gs_eng = << >>
  /\ NoSolver
  /\ NoMultiply
  /\ NoWorker
  /\ NoAlgebra

ExecutorNext ==
  \/ \E lb \in 0..(N_ - 1), rb \in 0..(N_ - 1) : lb < rb /\ ExecuteBegin(lb, rb)
  \/ ExecuteSweepLoop
  \/ SweepRightLoop
  \/ SweepLeftLoop
  \/ LoadRelatedTensSweep_
  \/ SetEffectiveHamiltonianTerms_
  \/ TwoSiteUpdate_
  \/ DumpRelatedTensSweep_

SpecDMRG == ExecutorInit /\ [][ExecutorNext]_vars

(***************************************************************************)
(* Properties of the sweep executor.                                       *)
(***************************************************************************)
StepNames == <<"load", "assemble", "update", "dump">>

\* The steps one sweep is to run between the boundaries lb and rb: the bonds
\* (i, i+1), i = lb..rb-2, moving right, then the bonds (i-1, i), i = rb..lb+2,
\* moving left, four steps each.
ExpectedSweep(lb, rb) ==
  LET nb == IF rb - lb - 1 > 0 THEN rb - lb - 1 ELSE 0
  IN [k \in 1..(8 * nb) |->
        LET b == (k - 1) \div 4
            name == StepNames[((k - 1) % 4) + 1]
        IN IF b < nb THEN <<name, lb + b, lb + b + 1, "r">>
           ELSE <<name, rb - (b - nb) - 1, rb - (b - nb), "l">>]

IsPrefix(s, t) == Len(s) <= Len(t) /\ \A k \in 1..Len(s) : s[k] = t[k]

\* C9: the steps of a sweep are, in this order and with nothing else in between,
\* load, assemble, update, dump on the bonds (i, i+1) for i = lb..rb-2 moving
\* right and then on the bonds (i-1, i) for i = rb..lb+2 moving left.
C9_SweepOrder ==
  /\ pc \notin {"none", "constructed"} =>
       IsPrefix(trace, ExpectedSweep(left_boundary_, right_boundary_))
  /\ (pc \in {"sweep_loop", "done"} /\ sweep > 1) =>
       trace = ExpectedSweep(left_boundary_, right_boundary_)

\* The second sweep over a chain with two bonds in each direction has returned.
C9_Witness ==
  /\ pc = "sweep_loop"
  /\ sweep = 3
  /\ right_boundary_ - left_boundary_ = 3
  /\ Len(trace) = 16
  /\ trace[1] = <<"load", left_boundary_, left_boundary_ + 1, "r">>
  /\ trace[16] = <<"dump", left_boundary_ + 1, left_boundary_ + 2, "l">>

\* C10: once Execute has finished, e0_ (what GetEnergy and FiniteDMRG return) is
\* the energy the Lanczos solver returned in the latest two-site update of the run.
C10_ReturnedEnergy ==
  exec_status = "FINISH" => last_gs_eng = <<e0_>>

\* C11: after a two-site update at (l_site_, r_site_) the centre of the MPS is
\* r_site_ when moving right and l_site_ when moving left, every position left of
\* it is LEFT and every position right of it is RIGHT.
C11_CenterAfterUpdate ==
  pc = "dump" =>
    LET c == IF dir_ = "r" THEN r_site_ ELSE l_site_
    IN /\ center_ = c
       /\ \A i \in Sites : /\ i < c => tens_cano_type_[i] = LEFT
                           /\ i > c => tens_cano_type_[i] = RIGHT

\* The latest step of the sweep under way.
LastStep == trace[Len(trace)]

\* The file the dump step of a bond is to write: the left group of block length
\* r after moving right, the right group of block length N-1-l after moving left.
GrownKey(step) ==
  IF step[4] = "r" THEN <<"l", step[3]>> ELSE <<"r", N_ - 1 - step[2]>>

\* C12: from the end of a bond's dump step until the next bond's load step the
\* temp directory holds the group that bond's update grew: the left group of
\* block length r_site after a right-moving update, the right group of block
\* length N-1-l_site after a left-moving one, its latest site tensor being the
\* one that same update stored.
C12_GrownGroupPersisted ==
  (trace # << >> /\ LastStep[1] = "dump") =>
    LET key == GrownKey(LastStep)
        grown == IF LastStep[4] = "r" THEN UpdatedTens(tick, "r").l
                 ELSE UpdatedTens(tick, "l").r
    IN /\ temp[key] # Null
       /\ temp[key][1].n > 0
       /\ Len(temp[key][1].of) = key[2]
       /\ temp[key][1].of[key[2]] = grown

\* The next bond of a left-moving pass is about to load, the right group grown
\* by the update before it being on file.
C12_Witness ==
  /\ pc = "load"
  /\ dir_ = "l"
  /\ trace # << >>
  /\ LastStep = <<"dump", l_site_ + 1, r_site_ + 1, "l">>
  /\ temp[<<"r", N_ - 1 - r_site_>>] # Null
  /\ temp[<<"r", N_ - 1 - r_site_>>][1].of[N_ - 1 - r_site_] = <<tick, "Vt">>

\* The tensor site s has now: the one in memory, or the one on file when the
\* site is paged out.
CurrentTen(s) ==
  IF raw_data_[s] # Null THEN raw_data_[s][1]
  ELSE disk[GenMPSTenName(kMpsPath, s)][1]

\* C13: when a bond (l_site_, r_site_) has been loaded, the left group in use was
\* grown from exactly the tensors sites 0..l_site_-1 have now and the right group
\* in use from exactly the tensors sites N-1..r_site_+1 have now.
C13_EnvironmentsCurrent ==
  pc \in {"assemble", "update"} =>
    LET lopg == lopg_vec_[l_site_]
        ropg == ropg_vec_[(N_ - 1) - r_site_]
    IN /\ lopg.ok
       /\ lopg.of = [k \in 1..l_site_ |-> CurrentTen(k - 1)]
       /\ ropg.ok
       /\ ropg.of = [k \in 1..((N_ - 1) - r_site_) |-> CurrentTen(N_ - k)]

\* In the second sweep a bond inside the chain is about to be updated, both its
\* groups resting on tensors the first sweep stored.
C13_Witness ==
  /\ pc = "update"
  /\ sweep = 2
  /\ dir_ = "r"
  /\ l_site_ > 0
  /\ r_site_ < N_ - 1
  /\ lopg_vec_[l_site_].of[l_site_][1] > 0
  /\ ropg_vec_[(N_ - 1) - r_site_].of[1][1] > 0
  /\ lopg_vec_[l_site_].of[l_site_] = CurrentTen(l_site_ - 1)
  /\ ropg_vec_[(N_ - 1) - r_site_].of[1] = CurrentTen(N_ - 1)

\* The groups of a vector that hold operators.
NonEmptyGroups(vec) == {p \in DOMAIN vec : vec[p].n > 0}

\* C14: at every point of a run at most two left groups and at most two right
\* groups hold operators in memory.
C14_GroupWindow ==
  pc \notin {"none"} =>
    /\ Cardinality(NonEmptyGroups(lopg_vec_)) <= 2
    /\ Cardinality(NonEmptyGroups(ropg_vec_)) <= 2

\* The hand-over from the right-moving to the left-moving pass: one left group
\* is still in memory, everything else is cleared.
C14_Witness ==
  /\ pc = "l_loop"
  /\ sweep_i = right_boundary_
  /\ right_boundary_ - left_boundary_ >= 3
  /\ NonEmptyGroups(lopg_vec_) = {right_boundary_ - 1}
  /\ NonEmptyGroups(ropg_vec_) = {}

\* The triples (i, j, k) a term group is to have for the bond (l, r) when the
\* left group holds n operators.
ValidTriples(n, W, l, r) ==
  {x \in (0..(n - 1)) \X (0..(W[l].cols - 1)) \X (0..(W[r].cols - 1)) :
     ~IsNull(W[l], x[1], x[2]) /\ ~IsNull(W[r], x[2], x[3])}

TermOf(x, l, r, n) ==
  [lop |-> <<l, x[1]>>, lmpo |-> <<l, x[1], x[2]>>, rmpo |-> <<r, x[2], x[3]>>,
   rop |-> <<(n - 1) - r, x[3]>>]

LexLess(x, y) ==
  \/ x[1] < y[1]
  \/ x[1] = y[1] /\ x[2] < y[2]
  \/ x[1] = y[1] /\ x[2] = y[2] /\ x[3] < y[3]

\* C15: after SetEffectiveHamiltonianTerms_ for the bond (l_site_, r_site_) the
\* term group holds, for every triple (i, j, k) with i below the size of the left
\* group, j and k below the column counts of the two MPO matrices and both
\* entries non-null, exactly one term pointing at L[l][i], W[l](i,j), W[r](j,k)
\* and R[N-1-r][k], the terms are in lexicographic order of (i, j, k), and there
\* is no other term.
C15_TermGroup ==
  pc = "update" =>
    LET valid == ValidTriples(lopg_vec_[l_site_].n, mat_repr_mpo_, l_site_, r_site_)
        terms == hamiltonian_terms_
    IN /\ Len(terms) = Cardinality(valid)
       /\ \A x \in valid :
            \E t \in 1..Len(terms) : terms[t] = TermOf(x, l_site_, r_site_, N_)
       /\ \A t \in 1..Len(terms) :
            \E x \in valid : terms[t] = TermOf(x, l_site_, r_site_, N_)
       /\ \A t, u \in 1..Len(terms) :
            t < u => LexLess(<<terms[t].lmpo[2], terms[t].lmpo[3], terms[t].rmpo[3]>>,
                             <<terms[u].lmpo[2], terms[u].lmpo[3], terms[u].rmpo[3]>>)

\* The terms of an inner bond of a triangular MPO, assembled after an earlier
\* bond's terms: four of the eight triples have both entries non-null.
C15_Witness ==
  /\ pc = "update"
  /\ tick >= 1
  /\ lopg_vec_[l_site_].n = 2
  /\ mat_repr_mpo_[l_site_].null # {}
  /\ mat_repr_mpo_[r_site_].null # {}
  /\ Len(hamiltonian_terms_) = 4
  /\ hamiltonian_terms_[3] = TermOf(<<0, 1, 1>>, l_site_, r_site_, N_)

\* C16: a right-moving two-site update stores U at l_site_ and S*Vt at r_site_
\* and sets L[l+1] to UpdateLeftBlockOps(L[l], the new MPS[l], W[l]), changing no
\* right group; a left-moving one stores U*S at l_site_ and Vt at r_site_ and sets
\* R[N-r] to UpdateRightBlockOps(R[N-1-r], the new MPS[r], W[r]), changing no left
\* group; no other site tensor and no other group changes.
C16_UpdateByDirection ==
  [][ (pc = "update" /\ pc' = "dump") =>
        LET l == l_site_
            r == r_site_
        IN /\ \A s \in Sites \ {l, r} : raw_data_'[s] = raw_data_[s]
           /\ dir_ = "r" =>
                /\ raw_data_'[l] = Ptr(<<tick', "U">>)
                /\ raw_data_'[r] = Ptr(<<tick', "S*Vt">>)
                /\ lopg_vec_'[l + 1] =
                     UpdateLeftBlockOps(lopg_vec_[l], raw_data_'[l], mat_repr_mpo_[l])
                /\ \A p \in DOMAIN lopg_vec_ \ {l + 1} : lopg_vec_'[p] = lopg_vec_[p]
                /\ ropg_vec_' = ropg_vec_
           /\ dir_ = "l" =>
                /\ raw_data_'[l] = Ptr(<<tick', "U*S">>)
                /\ raw_data_'[r] = Ptr(<<tick', "Vt">>)
                /\ ropg_vec_'[N_ - r] =
                     UpdateRightBlockOps(ropg_vec_[N_ - 1 - r], raw_data_'[r],
                                         mat_repr_mpo_[r])
                /\ \A p \in DOMAIN ropg_vec_ \ {N_ - r} : ropg_vec_'[p] = ropg_vec_[p]
                /\ lopg_vec_' = lopg_vec_ ]_vars

\* A left-moving update has stored U*S and Vt and grown the right group from Vt,
\* a third site tensor being in none of the two slots.
C16_Witness ==
  /\ pc = "dump"
  /\ dir_ = "l"
  /\ N_ >= 3
  /\ raw_data_[l_site_] = Ptr(<<tick, "U*S">>)
  /\ raw_data_[r_site_] = Ptr(<<tick, "Vt">>)
  /\ ropg_vec_[N_ - r_site_].n > 0
  /\ ropg_vec_[N_ - r_site_].of[N_ - r_site_] = <<tick, "Vt">>
  /\ NonEmptyGroups(lopg_vec_) = {l_site_}

(***************************************************************************)
(* LanczosSolver (lanczos_dmrg_solver_impl.h:44-174).                      *)
(*                                                                         *)
(* lanczos is a record of the call: the parameters max_iterations and      *)
(* error, eff_ham_eff_dim, the locals m, a, b, N, bases, energy0,          *)
(* norm_gamma, energy0_new, the result lancz_res (<< >> until the solver   *)
(* returns), and what the call did to the outside: mul_calls counts the    *)
(* calls of eff_ham_mul_state, tridiag_calls lists the calls of            *)
(* TridiagGsSolver as <<n, jobz>>, max_idx is the largest index used into  *)
(* a, b, N or bases, and memo keeps the eigenvalue TridiagGsSolver gave    *)
(* for each matrix (the same matrix gives the same eigenvalue).  The       *)
(* tensors and the spectrum are inputs: a Rayleigh quotient, a residual    *)
(* norm and an eigenvalue are any doubles.  A basis vector is <<"init", 0>>*)
(* or <<"gamma", m>>; a ground state is a copy of a basis vector or the    *)
(* combination of the first n basis vectors with the eigenvector of a      *)
(* matrix.  last_mat_mul_vec_res is the tensor that pointer owns; the       *)
(* residual gamma of iteration m is that same tensor, named <<"gamma", m>>. *)
(* live is the set of state-sized tensors in memory: those on the heap and *)
(* the locals base_dag (<<"base_dag", 0>> of line 84, <<"base_dag", m>> of *)
(* line 146); peak is the largest number of them alive at one time in the  *)
(* latest iteration, and released lists the tensors deleted or gone out of *)
(* scope, in order.                                                        *)
(***************************************************************************)
\* The matrix TridiagGsSolver(a, b, n, ...) works on: diagonal a[0..n-1],
\* off-diagonal b[0..n-2].
Tridiag(a, b, n) ==
  [d |-> [i \in 0..(n - 1) |-> a[i]], e |-> [i \in 0..(n - 2) |-> b[i]]]

\* The eigenvalues TridiagGsSolver may return for a matrix.
EigVals(memo, mat) == IF mat \in DOMAIN memo THEN {memo[mat]} ELSE Doubles

Remember(memo, mat, eigval) ==
  IF mat \in DOMAIN memo THEN memo ELSE memo @@ (mat :> eigval)

\* An assignment to element i of a vector; past the end of the vector it lands
\* in the memory behind it.
Store(vec, i, v) ==
  IF i \in DOMAIN vec THEN [vec EXCEPT ![i] = v] ELSE vec @@ (i :> v)

NotNull(t) == t # Null

\* LanczosFree(eigvec, bases, n, last_mat_mul_vec_res): the tensors it deletes,
\* the first n elements of bases, then the matrix-vector result.  The overload
\* without n deletes every element of bases.  Deleting nullptr does nothing.
LanczosFree(bases, n, last) ==
  SelectSeq([i \in 1..n |-> bases[i - 1]], NotNull) \o <<last>>

\* The set of the elements of a sequence.
Range(seq) == {seq[i] : i \in DOMAIN seq}

\* return lancz_res: gs_vec has been allocated while every other tensor was
\* still alive, LanczosFree has deleted `freed`, and the locals go out of scope.
Return(z, gs_vec, freed, locals) ==
  LET atExit == z.live \cup {gs_vec}
  IN [z EXCEPT !.peak = Cardinality(atExit),
               !.released = @ \o freed \o locals,
               !.live = atExit \ Range(freed \o locals)]

\* A mutant: the convergence test is two-sided.
StopCond_TwoSided(energy0, energy0_new, error, m, eff_ham_eff_dim, max_iterations) ==
  \/ (energy0 - energy0_new < error /\ energy0_new - energy0 < error)
  \/ m = eff_ham_eff_dim
  \/ m = max_iterations - 1

\* A mutant: the convergence test has no iteration cap.
StopCond_NoIterCap(energy0, energy0_new, error, m, eff_ham_eff_dim, max_iterations) ==
  \/ energy0 - energy0_new < error
  \/ m = eff_ham_eff_dim

\* The condition of lines 156-160.
StopCond(energy0, energy0_new, error, m, eff_ham_eff_dim, max_iterations) ==
  \/ energy0 - energy0_new < error
  \/ m = eff_ham_eff_dim
  \/ m = max_iterations - 1

\* A mutant: the first breakdown solves a tridiagonal problem like a later one.
FirstBreakdown_Solves(z) ==
  [z EXCEPT !.pc = "returned", !.m = 1, !.norm_gamma = 0,
            !.tridiag_calls = Append(@, <<1, "V">>),
            !.lancz_res = <<[iters |-> 1, gs_eng |-> z.energy0,
                             gs_vec |-> [combined |-> 1,
                                         eigvec_of |-> Tridiag(z.a, z.b, 1)]]>>]

\* norm_gamma == 0.0 at m == 1 (lines 113-118).
FirstBreakdown(z) ==
  Return([z EXCEPT !.pc = "returned", !.m = 1, !.norm_gamma = 0,
                   !.lancz_res = <<[iters |-> 1, gs_eng |-> z.energy0,
                                    gs_vec |-> [copy_of |-> z.bases[0]]]>>],
         <<"gs_vec", 1>>,
         LanczosFree(z.bases, z.max_iterations, z.last_mat_mul_vec_res),
         << <<"base_dag", 0>> >>)

\* A mutant: the energy returned is the latest Rayleigh quotient.
LaterBreakdown_Rayleigh(z, m, eigval) ==
  [z EXCEPT !.pc = "returned", !.m = m, !.norm_gamma = 0,
            !.tridiag_calls = Append(@, <<m, "V">>),
            !.memo = Remember(@, Tridiag(z.a, z.b, m), eigval),
            !.lancz_res = <<[iters |-> m, gs_eng |-> z.a[m - 1],
                             gs_vec |-> [combined |-> m,
                                         eigvec_of |-> Tridiag(z.a, z.b, m)]]>>]

\* norm_gamma == 0.0 at m > 1 (lines 119-128); eigval is what
\* TridiagGsSolver(a, b, m, ..., 'V') returns.
LaterBreakdown(z, m, eigval) ==
  Return([z EXCEPT !.pc = "returned", !.m = m, !.norm_gamma = 0,
                   !.tridiag_calls = Append(@, <<m, "V">>),
                   !.memo = Remember(@, Tridiag(z.a, z.b, m), eigval),
                   !.lancz_res = <<[iters |-> m, gs_eng |-> z.energy0,
                                    gs_vec |-> [combined |-> m,
                                                eigvec_of |-> Tridiag(z.a, z.b, m)]]>>],
         <<"gs_vec", m>>,
         LanczosFree(z.bases, m, z.last_mat_mul_vec_res),
         << <<"base_dag", 0>> >>)

\* A mutant: the product of line 139 is not computed anew.
Extend_NoProduct(z, m, norm_gamma, a_m) ==
  [z EXCEPT !.m = m, !.norm_gamma = norm_gamma,
            !.N = Store(@, m, norm_gamma * norm_gamma),
            !.b = Store(@, m - 1, norm_gamma),
            !.bases = Store(@, m, z.last_mat_mul_vec_res),
            !.a = Store(@, m, a_m),
            !.max_idx = m]

\* Lines 131-153: the residual gamma (line 98: the tensor of
\* last_mat_mul_vec_res) becomes the new basis vector, a new product is
\* allocated by eff_ham_mul_state, and base_dag is a conjugated copy of the
\* new basis vector; a_m is its Rayleigh quotient.
Extend(z, m, norm_gamma, a_m) ==
  LET live == z.live \cup {<<"gamma", m + 1>>, <<"base_dag", m>>}
  IN [z EXCEPT !.m = m, !.norm_gamma = norm_gamma,
               !.N = Store(@, m, norm_gamma * norm_gamma),
               !.b = Store(@, m - 1, norm_gamma),
               !.bases = Store(@, m, z.last_mat_mul_vec_res),
               !.mul_calls = @ + 1,
               !.last_mat_mul_vec_res = <<"gamma", m + 1>>,
               !.live = live,
               !.peak = Cardinality(live),
               !.a = Store(@, m, a_m),
               !.max_idx = m]

\* Lines 154-172 on the extended arrays: energy0_new is what
\* TridiagGsSolver(a, b, m + 1, ..., 'N') returns.
Converge(z, m, energy0_new) ==
  LET mat == Tridiag(z.a, z.b, m + 1)
      stop == StopCond(z.energy0, energy0_new, z.error, m, z.eff_ham_eff_dim,
                       z.max_iterations)
      y == [z EXCEPT !.energy0_new = energy0_new,
                     !.energy0 = energy0_new,
                     !.memo = Remember(@, mat, energy0_new),
                     !.tridiag_calls =
                        @ \o (IF stop THEN << <<m + 1, "N">>, <<m + 1, "V">> >>
                              ELSE << <<m + 1, "N">> >>),
                     !.pc = IF stop THEN "returned" ELSE "loop",
                     !.lancz_res =
                        IF stop
                          THEN <<[iters |-> m + 1, gs_eng |-> energy0_new,
                                  gs_vec |-> [combined |-> m + 1, eigvec_of |-> mat]]>>
                          ELSE @]
  IN IF stop
       THEN Return(y, <<"gs_vec", m + 1>>,
                   LanczosFree(z.bases, m + 1, z.last_mat_mul_vec_res),
                   << <<"base_dag", m>>, <<"base_dag", 0>> >>)
       ELSE [y EXCEPT !.released = Append(@, <<"base_dag", m>>),
                      !.live = @ \ {<<"base_dag", m>>}]

\* LanczosSolver up to its loop (lines 52-94): the arrays of max_iterations
\* elements, the normalized initial state as bases[0], the first product and
\* its Rayleigh quotient a[0].
LanczosStart ==
  /\ lanczos.pc = "called"
  /\ \E a_0 \in Doubles :
       LET idx == 0..(lanczos.max_iterations - 1)
       IN lanczos' =
            [pc |-> "loop",
             max_iterations |-> lanczos.max_iterations,
             error |-> lanczos.error,
             eff_ham_eff_dim |-> lanczos.eff_ham_eff_dim,
             bases |-> Store([i \in idx |-> Null], 0, <<"init", 0>>),
             a |-> Store([i \in idx |-> 0], 0, a_0),
             b |-> [i \in idx |-> 0],
             N |-> Store([i \in idx |-> 0], 0, 0),
             m |-> 0,
             energy0 |-> a_0,
             norm_gamma |-> 0,
             energy0_new |-> 0,
             lancz_res |-> << >>,
             mul_calls |-> 1,
             tridiag_calls |-> << >>,
             max_idx |-> 0,
             memo |-> << >>,
             last_mat_mul_vec_res |-> <<"gamma", 1>>,
             live |-> {<<"init", 0>>, <<"gamma", 1>>, <<"base_dag", 0>>},
             peak |-> 3,
             released |-> << >>]
  /\ UNCHANGED <<mpsVars, dmrgVars, mul, slave, alg>>

\* One pass through the loop (lines 96-173).  When m has reached max_iterations
\* the assignments of lines 131-153 write past the end of the four vectors:
\* the call crashes, or the writes land behind the vectors and it goes on.
LanczosIterate ==
  /\ lanczos.pc = "loop"
  /\ LET z == lanczos
         m == z.m + 1
     IN \E norm_gamma \in Doubles :
          IF norm_gamma = 0
            THEN IF m = 1
                   THEN lanczos' = FirstBreakdown(z)
                   ELSE \E eigval \in EigVals(z.memo, Tridiag(z.a, z.b, m)) :
                          lanczos' = LaterBreakdown(z, m, eigval)
            ELSE \/ /\ m >= z.max_iterations
                    /\ lanczos' = [z EXCEPT !.pc = "crashed", !.m = m,
                                            !.norm_gamma = norm_gamma,
                                            !.max_idx = m]
                 \/ \E a_m \in Doubles :
                      LET x == Extend(z, m, norm_gamma, a_m)
                      IN \E energy0_new \in EigVals(x.memo, Tridiag(x.a, x.b, m + 1)) :
                           lanczos' = Converge(x, m, energy0_new)
  /\ UNCHANGED <<mpsVars, dmrgVars, mul, slave, alg>>

\* A call of LanczosSolver with some parameters on an initial state of some
\* dimension; no MPS and no executor take part.
LanczosInit ==
  /\ size_ = 0
  /\ raw_data_ = << >>
  /\ center_ = kUncentralizedCenterIdx
  /\ tens_cano_type_ = << >>
  /\ disk = << >>
  /\ tenvec_cp = << >>
  /\ ndebug = FALSE
  /\ status = "ok"
  /\ lastOp = NoOp
  /\ dumpedBy = NoOp
  /\ snap = << >>
  /\ NoExecutor
  /\ NoMultiply
  /\ NoWorker
  /\ NoAlgebra
  /\ lanczos \in [pc : {"called"}, max_iterations : 1..MaxIterations,
                   error : Doubles, eff_ham_eff_dim : 1..MaxDim]

LanczosNext ==
  \/ LanczosStart
  \/ LanczosIterate

SpecLanczos == LanczosInit /\ [][LanczosNext]_vars

\* The solver is sequential code: a call that can take a step takes it.
SpecLanczosFair == SpecLanczos /\ WF_vars(LanczosNext)

(***************************************************************************)
(* Properties of LanczosSolver.                                            *)
(***************************************************************************)
\* The result of a call that has returned.
LanczosResult == lanczos.lancz_res[1]

\* The basis vectors the solver holds.
HeldBases(z) == {i \in DOMAIN z.bases : z.bases[i] # Null}

\* C17: in an iteration m >= 1 without breakdown the solver stops exactly when
\* E - E_new < error, or m is the dimension of the initial state, or m is
\* max_iterations - 1, so that an increase of the estimate stops it too; when
\* it stops it returns iters = m + 1, gs_eng = E_new, the eigenvalue of the
\* (m + 1) x (m + 1) tridiagonal matrix, and gs_vec combined from the m + 1
\* basis vectors with the eigenvector of that matrix; otherwise E becomes E_new
\* and the loop goes on.
C17_StopRule ==
  [][(/\ lanczos.pc = "loop"
      /\ lanczos'.pc \in {"loop", "returned"}
      /\ lanczos'.norm_gamma # 0)
     => LET z == lanczos
            y == lanczos'
            m == z.m + 1
            E == z.energy0
            E_new == y.energy0_new
            mat == Tridiag(y.a, y.b, m + 1)
            stop == \/ E - E_new < z.error
                    \/ m = z.eff_ham_eff_dim
                    \/ m = z.max_iterations - 1
        IN /\ y.m = m
           /\ m >= 1
           /\ mat \in DOMAIN y.memo
           /\ E_new = y.memo[mat]
           /\ (y.pc = "returned") <=> stop
           /\ E_new > E => y.pc = "returned"
           /\ stop => /\ y.lancz_res =
                            <<[iters |-> m + 1, gs_eng |-> E_new,
                               gs_vec |-> [combined |-> m + 1, eigvec_of |-> mat]]>>
                       /\ 0..m \subseteq HeldBases(y)
                       /\ y.tridiag_calls =
                            z.tridiag_calls \o << <<m + 1, "N">>, <<m + 1, "V">> >>
           /\ ~stop => /\ y.energy0 = E_new
                        /\ y.lancz_res = << >>
                        /\ y.tridiag_calls = Append(z.tridiag_calls, <<m + 1, "N">>)
    ]_vars

\* The solver has stopped at m = 1 only because the estimate went up.
C17_Witness ==
  /\ lanczos.pc = "returned"
  /\ lanczos.norm_gamma # 0
  /\ lanczos.m = 1
  /\ lanczos.eff_ham_eff_dim > 1
  /\ lanczos.max_iterations > 2
  /\ lanczos.energy0_new > lanczos.a[0]
  /\ lanczos.error = 0
  /\ LanczosResult.iters = 2

\* C18: max_iterations caps the Krylov dimension: the solver holds at most
\* max_iterations basis vectors, every index used into bases, a, b and N is
\* smaller than max_iterations, and the returned iters is at most
\* max_iterations.
C18_KrylovCap ==
  lanczos.pc \in {"loop", "returned", "crashed"}
    => /\ Cardinality(HeldBases(lanczos)) <= lanczos.max_iterations
       /\ lanczos.max_idx < lanczos.max_iterations
       /\ lanczos.pc = "returned"
            => LanczosResult.iters <= lanczos.max_iterations

\* C19: a breakdown at the first iteration returns at once with iters = 1,
\* gs_eng = a[0] and gs_vec a copy of the normalized initial state, after one
\* call of the multiply callback and none of the tridiagonal solver.
C19_FirstBreakdown ==
  [][(/\ lanczos.pc = "loop"
      /\ lanczos.m = 0
      /\ lanczos'.norm_gamma = 0)
     => /\ lanczos'.pc = "returned"
        /\ lanczos'.lancz_res =
             <<[iters |-> 1, gs_eng |-> lanczos.a[0],
                gs_vec |-> [copy_of |-> <<"init", 0>>]]>>
        /\ lanczos'.mul_calls = 1
        /\ lanczos'.tridiag_calls = << >>
    ]_vars

\* The solver has returned from a breakdown at the first iteration.
C19_Witness ==
  /\ lanczos.pc = "returned"
  /\ lanczos.m = 1
  /\ lanczos.norm_gamma = 0
  /\ LanczosResult.iters = 1
  /\ lanczos.mul_calls = 1

\* C20: a breakdown at an iteration m > 1 returns iters = m, gs_vec combined
\* from the first m basis vectors with the eigenvector of the m x m tridiagonal
\* matrix, and gs_eng the eigenvalue of that same matrix.
C20_LaterBreakdown ==
  [][(/\ lanczos.pc = "loop"
      /\ lanczos.m >= 1
      /\ lanczos'.m = lanczos.m + 1
      /\ lanczos'.norm_gamma = 0)
     => LET z == lanczos
            y == lanczos'
            m == z.m + 1
            mat == Tridiag(z.a, z.b, m)
        IN /\ y.pc = "returned"
           /\ mat \in DOMAIN y.memo
           /\ y.lancz_res =
                <<[iters |-> m, gs_eng |-> y.memo[mat],
                   gs_vec |-> [combined |-> m, eigvec_of |-> mat]]>>
           /\ 0..(m - 1) \subseteq HeldBases(y)
           /\ y.tridiag_calls = Append(z.tridiag_calls, <<m, "V">>)
    ]_vars

\* The solver has returned from a breakdown at the second iteration, with an
\* energy that is not the latest Rayleigh quotient.
C20_Witness ==
  /\ lanczos.pc = "returned"
  /\ lanczos.m = 2
  /\ lanczos.norm_gamma = 0
  /\ lanczos.max_iterations > 2
  /\ LanczosResult.iters = 2
  /\ LanczosResult.gs_eng # lanczos.a[1]

\* The tensors of a sequence are all different.
NoRepeat(seq) == \A i, j \in DOMAIN seq : seq[i] = seq[j] => i = j

\* The tensor returned as gs_vec.
ReturnedGsVec == <<"gs_vec", LanczosResult.iters>>

\* C21: during iteration m at most m + 2 state-sized tensors are alive; every
\* basis vector is alive as long as the loop runs; when the solver has returned
\* every tensor it held, the caller's initial state among them, has been
\* released exactly once, and gs_vec is a new tensor, the only one left.
C21_TensorsHeld ==
  (lanczos.pc \in {"loop", "returned"} /\ lanczos.m >= 1)
    => /\ lanczos.peak <= lanczos.m + 2
       /\ NoRepeat(lanczos.released)
       /\ lanczos.pc = "loop"
            => {lanczos.bases[i] : i \in HeldBases(lanczos)} \subseteq lanczos.live
       /\ lanczos.pc = "returned"
            => /\ lanczos.live = {ReturnedGsVec}
               /\ <<"init", 0>> \in Range(lanczos.released)
               /\ ReturnedGsVec \notin Range(lanczos.released)

\* The smaller of two numbers.
Min(x, y) == IF x <= y THEN x ELSE y

\* C28: a call with max_iterations >= 2 returns, after at most
\* min(dim(v0), max_iterations - 1) iterations of the loop.
C28_Terminates ==
  (lanczos.pc = "called" /\ lanczos.max_iterations >= 2)
    ~> (/\ lanczos.pc = "returned"
        /\ lanczos.m >= 1
        /\ lanczos.m <= Min(lanczos.eff_ham_eff_dim, lanczos.max_iterations - 1))

\* The solver has returned from iteration 2 only because of the iteration cap:
\* the estimate did not improve by less than error and the dimension is larger.
C28_Witness ==
  /\ lanczos.pc = "returned"
  /\ lanczos.norm_gamma # 0
  /\ lanczos.m = 2
  /\ lanczos.max_iterations = 3
  /\ lanczos.eff_ham_eff_dim > 2
  /\ lanczos.memo[Tridiag(lanczos.a, lanczos.b, 2)] - lanczos.energy0_new
       >= lanczos.error

\* C29: the returned iters is the number of calls of the multiply callback;
\* iters = 1 comes only from the breakdown at the first iteration, every other
\* exit returns iters >= 2.
C29_ItersCountsProducts ==
  lanczos.pc = "returned"
    => /\ LanczosResult.iters = lanczos.mul_calls
       /\ LanczosResult.iters = 1 <=> (lanczos.m = 1 /\ lanczos.norm_gamma = 0)
       /\ (lanczos.m > 1 \/ lanczos.norm_gamma # 0) => LanczosResult.iters >= 2

\* The solver has returned from a convergence at the second iteration after
\* three products.
C29_Witness ==
  /\ lanczos.pc = "returned"
  /\ lanczos.norm_gamma # 0
  /\ lanczos.m = 2
  /\ lanczos.mul_calls = 3
  /\ LanczosResult.iters = 3

(***************************************************************************)
(* eff_ham_terms_mul_two_site_state (lanczos_dmrg_solver_impl.h:186-211).  *)
(*                                                                         *)
(* mul is a record of the call: the term group eff_ham, a sequence of      *)
(* terms, each a function from 0..3 to the tensor the pointer term[k]      *)
(* points to, the tensor state, and after the return the vector            *)
(* multiplication_res, the tensor res and the set heap of tensors          *)
(* allocated with new.  A tensor is a value of TenVals or OpTens, or the   *)
(* expression that computed it.                                            *)
(***************************************************************************)
\* The tensors the terms of a group point to.
OpTens == {"P", "Q"}

\* Contract(a, b, ..., res): the contraction of a with b.
Contract(a, b) == <<"Contract", a, b>>

\* LinearCombine(coefs, tens, beta, res): beta * res + sum of coefs[i] * tens[i].
LinearCombine(coefs, tens, beta, res) ==
  [sum |-> (IF beta = 0 THEN << >> ELSE << <<beta, res>> >>)
             \o [i \in DOMAIN tens |-> <<coefs[i], tens[i]>>]]

\* A mutant: the state is contracted with term[1] before term[0].
TermProduct_Swapped(state, term) ==
  Contract(Contract(Contract(Contract(state, term[1]), term[0]), term[2]), term[3])

\* Lines 198-202: temp1, temp2, temp3 and multiplication_res[i].
TermProduct(state, term) ==
  LET temp1 == Contract(state, term[0])
      temp2 == Contract(temp1, term[1])
      temp3 == Contract(temp2, term[2])
  IN Contract(temp3, term[3])

\* The function: state and the terms are read only, res is allocated with new.
eff_ham_terms_mul_two_site_state(eff_ham, state) ==
  LET num_terms == Len(eff_ham)
      multiplication_res == [i \in 1..num_terms |-> TermProduct(state, eff_ham[i])]
      coefs == [i \in 1..num_terms |-> 1]
  IN [eff_ham |-> eff_ham,
      state |-> state,
      multiplication_res |-> multiplication_res,
      heap |-> {"res"},
      res |-> LinearCombine(coefs, multiplication_res, 0, DefaultTen)]

\* The term groups of at most MaxTerms terms.
TermGroups ==
  UNION {[1..n -> [0..3 -> OpTens]] : n \in 0..MaxTerms}

MulCall ==
  /\ mul.pc = "called"
  /\ LET out == eff_ham_terms_mul_two_site_state(mul.eff_ham, mul.state)
     IN mul' = [pc |-> "returned",
                arg |-> [eff_ham |-> mul.eff_ham, state |-> mul.state],
                eff_ham |-> out.eff_ham,
                state |-> out.state,
                multiplication_res |-> out.multiplication_res,
                heap |-> mul.heap \cup out.heap,
                returned |-> "res",
                res |-> out.res]
  /\ UNCHANGED <<mpsVars, dmrgVars, lanczos, slave, alg>>

\* A call on some term group and some state, both allocated by the caller.
MulInit ==
  /\ size_ = 0
  /\ raw_data_ = << >>
  /\ center_ = kUncentralizedCenterIdx
  /\ tens_cano_type_ = << >>
  /\ disk = << >>
  /\ tenvec_cp = << >>
  /\ ndebug = FALSE
  /\ status = "ok"
  /\ lastOp = NoOp
  /\ dumpedBy = NoOp
  /\ snap = << >>
  /\ NoExecutor
  /\ NoSolver
  /\ NoWorker
  /\ NoAlgebra
  /\ mul \in [pc : {"called"}, eff_ham : TermGroups, state : TenVals,
               heap : {{"state", "terms"}}]

MulNext == MulCall

SpecMul == MulInit /\ [][MulNext]_vars

\* C22: eff_ham_terms_mul_two_site_state returns a newly allocated tensor, the
\* sum with coefficients 1, over the terms in their order, of the state
\* contracted with term[0], term[1], term[2], term[3] in turn; it computes
\* one partial result for each term and leaves the state and the terms as
\* they were.
C22_SumOfTermProducts ==
  mul.pc = "returned"
    => LET eff_ham == mul.arg.eff_ham
           state == mul.arg.state
           n == Len(eff_ham)
           chain(i) ==
             <<"Contract",
               <<"Contract",
                 <<"Contract", <<"Contract", state, eff_ham[i][0]>>, eff_ham[i][1]>>,
                 eff_ham[i][2]>>,
               eff_ham[i][3]>>
       IN /\ mul.res = [sum |-> [i \in 1..n |-> <<1, chain(i)>>]]
          /\ Len(mul.multiplication_res) = n
          /\ mul.returned \in mul.heap
          /\ mul.returned \notin {"state", "terms"}
          /\ mul.state = state
          /\ mul.eff_ham = eff_ham

\* The function has returned the product with a group of two different terms.
C22_Witness ==
  /\ mul.pc = "returned"
  /\ Len(mul.arg.eff_ham) = 2
  /\ mul.arg.eff_ham[1] # mul.arg.eff_ham[2]
  /\ mul.arg.eff_ham[1][0] # mul.arg.eff_ham[1][3]
  /\ Len(mul.res.sum) = 2

(***************************************************************************)
(* DMRGMPISlaveExecutor (coef_op_alg.h:541-962).                           *)
(*                                                                         *)
(* slave is a record of one worker: its rank id_, its executor status,     *)
(* where Execute stands (pc), the members l_site_, r_site_,                *)
(* block_site_ops_, site_block_ops_ and ops_num_table_, the task_num and   *)
(* total_num_terms of the phase under way, the order (last) and the task   *)
(* id (task_id) received latest (the locals of a task loop are 0 once the   *)
(* next order is in), and what the latest step did on the communicator     *)
(* (sent; for a static product, whose handler waits in MPI_Barrier, what   *)
(* the call has done so far):                                              *)
(* <<"send", tag, what>> for a message to the master, <<"barrier">> for    *)
(* MPI_Barrier.  id_sends counts the messages that carry the worker's id.  *)
(* The orders, sites, task ids and tensors come from the master and are    *)
(* inputs; the world has                                                   *)
(* MaxWorkers workers besides the master.  An operator of a cache is the   *)
(* record of what it was built from: the side, the bond l_site_, the       *)
(* lanczos order it was built in (orders counts the lanczos orders         *)
(* received) and the task id; built counts the operators built so far.     *)
(***************************************************************************)
\* The orders SlaveGetBroadcastOrder can return.
Orders ==
  {"program_start", "init_grow_env_grow", "init_grow_env_finish", "lanczos",
   "svd", "lanczos_mat_vec_dynamic", "lanczos_mat_vec_static", "lanczos_finish",
   "growing_left_env", "growing_right_env", "program_final"}

\* The orders the switch of Execute has a case for (lines 615-634).
SwitchCases ==
  {"lanczos", "svd", "growing_left_env", "growing_right_env", "program_final"}

\* A mutant: clear() leaves the vector as it is.
ClearCache_Keeps(vec) == vec

\* std::vector::clear (lines 787-789).
ClearCache(vec) == << >>

\* A mutant: the operator is filed under the task after the one received.
BuiltOp_NextTask(side, z, task_id) ==
  [side |-> side, l_site |-> z.l_site_, order |-> z.orders, task |-> task_id + 1]

\* The operator of lines 808-826 (side "block_site") or 829-846 ("site_block").
BuiltOp(side, z, task_id) ==
  [side |-> side, l_site |-> z.l_site_, order |-> z.orders, task |-> task_id]

SlaveStep(z) ==
  /\ slave' = z
  /\ UNCHANGED <<mpsVars, dmrgVars, lanczos, mul, alg>>

\* A mutant: the assertion is not checked in any build.
SlaveAssert_Off(cond, z) == SlaveStep(z)

\* assert(cond) in a handler: the debug build aborts when cond is false.
SlaveAssert(cond, z) ==
  IF cond \/ ndebug THEN SlaveStep(z)
  ELSE SlaveStep([slave EXCEPT !.pc = "aborted", !.last = z.last, !.sent = << >>])

\* A mutant: every first order starts the worker.
FirstOrderOk_Any(order) == TRUE

\* The test of the first order (line 603).
FirstOrderOk(order) == order = "program_start"

\* A mutant: the loop goes on after program_final.
LoopCond_Always(order) == TRUE

\* The condition of the loop of Execute (line 612).
LoopCond(order) == order # "program_final"

\* The end of one pass of the loop of Execute on `order`: back to its head,
\* or out of it and SetStatus(FINISH) (lines 612, 638-640).
Looped(z, order) ==
  IF LoopCond(order) THEN [z EXCEPT !.pc = "main"]
  ELSE [z EXCEPT !.pc = "FINISH", !.exec_status = "FINISH"]

\* A mutant: the dynamic phase tells tasks by the test of the growing phase.
IsDynamicTask_Below(task_id, total_num_terms) == task_id < total_num_terms

\* The received id is handled as a task of the dynamic phase (line 799).
IsDynamicTask(task_id, total_num_terms) == ~(task_id > total_num_terms)

\* The received id is handled as a task of the initial growing phase (line 699).
IsGrowTask(task_id, task_num) == task_id < task_num

\* A mutant: a worker without cached terms skips the barrier.
StaticEvents_SkipsBarrier(num_terms, id) ==
  IF num_terms > 0
    THEN << <<"send", id, "sub_sum">>, <<"barrier">>, <<"send", id, "sub_overlap">> >>
    ELSE << >>

\* What WorkForStaticHamiltonianMultiplyState_ does on the communicator after
\* it received the state (lines 887-933).
StaticEvents(num_terms, id) ==
  IF num_terms > 0
    THEN << <<"send", id, "sub_sum">>, <<"barrier">>, <<"send", id, "sub_overlap">> >>
    ELSE << <<"barrier">> >>

\* The events of a call that stands in MPI_Barrier (line 925 or 928), waiting
\* for the other ranks: those before the barrier.
BeforeBarrier(events) ==
  LET at == {k \in DOMAIN events : events[k] = <<"barrier">>}
  IN IF at = {} THEN events
     ELSE SubSeq(events, 1, (CHOOSE k \in at : \A j \in at : k <= j) - 1)

\* Execute is called: SetStatus(EXEING) (line 601), then the worker waits in
\* SlaveGetBroadcastOrder for its first order (line 602).
SlaveExecuteStart ==
  /\ slave.pc = "INITED"
  /\ SlaveStep([slave EXCEPT !.pc = "start", !.exec_status = "EXEING"])

\* The first order is in (lines 602-608): the worker sends its id and goes on
\* to DMRGInit_, or the process exits.
SlaveFirstOrder ==
  /\ slave.pc = "start"
  /\ \E order \in Orders :
       IF FirstOrderOk(order)
         THEN SlaveStep([slave EXCEPT !.pc = "init",
                                      !.last = order, !.id_sends = @ + 1,
                                      !.sent = << <<"send", 2 * slave.id_, slave.id_>> >>])
         ELSE SlaveStep([slave EXCEPT !.pc = "exited",
                                      !.last = order, !.exit_code = 1])

\* UpdateRightBlockOpsSlave_ (lines 654-730) up to its task loop: with no
\* more tasks than workers the worker of rank id_ <= task_num does the task
\* id_ - 1, otherwise the worker asks for tasks (line 698).
UpdateRightBlockOpsSlave_(z, task_num) ==
  IF task_num <= MaxWorkers
    THEN IF z.id_ <= task_num
           THEN [z EXCEPT !.sent = << <<"send", z.id_ - 1, "res">> >>]
           ELSE [z EXCEPT !.sent = << >>]
    ELSE [z EXCEPT !.pc = "grow_tasks", !.task_num = task_num, !.sent = << >>]

\* DMRGInit_ (lines 644-651): one order and, unless it ends the
\* initialization, UpdateRightBlockOpsSlave_.
SlaveDMRGInit_ ==
  /\ slave.pc = "init"
  /\ \E order \in Orders, task_num \in 0..(MaxWorkers + 1) :
       IF order = "init_grow_env_finish"
         THEN SlaveStep([slave EXCEPT !.pc = "main", !.last = order,
                                      !.task_id = 0, !.sent = << >>])
         ELSE SlaveAssert(order = "init_grow_env_grow",
                          UpdateRightBlockOpsSlave_([slave EXCEPT !.last = order,
                                                                  !.task_id = 0],
                                                    task_num))

\* One pass of the task loop of UpdateRightBlockOpsSlave_ (lines 698-727).
SlaveGrowTask ==
  /\ slave.pc = "grow_tasks"
  /\ \E task_id \in 0..(MaxWorkers + 2) :
       IF IsGrowTask(task_id, slave.task_num)
         THEN SlaveStep([slave EXCEPT !.task_id = task_id,
                                      !.sent = << <<"send", task_id, "res">> >>])
         ELSE SlaveStep([slave EXCEPT !.pc = "init", !.task_id = task_id,
                                      !.task_num = 0, !.sent = << >>])

\* case lanczos (lines 615-619) up to the first order of SlaveLanczosSolver_.
SlaveLanczosOrder ==
  /\ slave.pc = "main"
  /\ slave.orders < MaxOrders
  /\ \E l_site \in 0..(NSites - 2) :
       SlaveStep([slave EXCEPT !.pc = "solver", !.l_site_ = l_site,
                               !.r_site_ = l_site + 1, !.orders = @ + 1,
                               !.last = "lanczos", !.sent = << >>])

\* case svd (lines 621-623).
MPISVDSlave ==
  /\ slave.pc = "main"
  /\ SlaveStep(Looped([slave EXCEPT !.last = "svd", !.sent = << >>], "svd"))

\* WorkForGrowLeftBlockOps_ (lines 936-948).
WorkForGrowLeftBlockOps_ ==
  /\ slave.pc = "main"
  /\ SlaveStep(Looped([slave EXCEPT
        !.last = "growing_left_env",
        !.sent = [i \in DOMAIN slave.block_site_ops_ |->
                    <<slave.ops_num_table_[i], slave.block_site_ops_[i]>>]],
        "growing_left_env"))

\* WorkForGrowRightBlockOps_ (lines 950-962).
WorkForGrowRightBlockOps_ ==
  /\ slave.pc = "main"
  /\ SlaveStep(Looped([slave EXCEPT
        !.last = "growing_right_env",
        !.sent = [i \in DOMAIN slave.site_block_ops_ |->
                    <<slave.ops_num_table_[i], slave.site_block_ops_[i]>>]],
        "growing_right_env"))

\* case program_final and the end of Execute (lines 633-640).
SlaveProgramFinal ==
  /\ slave.pc = "main"
  /\ SlaveStep(Looped([slave EXCEPT !.last = "program_final", !.sent = << >>],
                      "program_final"))

\* default: an order the switch does not know (lines 635-636).
SlaveUnknownOrder ==
  /\ slave.pc = "main"
  /\ \E order \in Orders \ SwitchCases :
       SlaveStep(Looped([slave EXCEPT !.last = order, !.sent = << >>], order))

\* SlaveLanczosSolver_ (lines 766-768) and WorkForDynamicHamiltonianMultiplyState_
\* up to its first task (lines 783-792).
WorkForDynamicHamiltonianMultiplyState_ ==
  /\ slave.pc = "solver"
  /\ \E order \in Orders, total_num_terms \in 0..MaxTasks :
       SlaveAssert(order = "lanczos_mat_vec_dynamic",
                   [slave EXCEPT !.pc = "dynamic",
                                 !.total_num_terms = total_num_terms,
                                 !.block_site_ops_ = ClearCache(@),
                                 !.site_block_ops_ = ClearCache(@),
                                 !.ops_num_table_ = ClearCache(@),
                                 !.last = order,
                                 !.sent = << <<"send", total_num_terms + 10086,
                                               "invalid">> >>])

\* One pass of the task loop of the dynamic phase (lines 797-867).
SlaveDynamicTask ==
  /\ slave.pc = "dynamic"
  /\ \E task_id \in 0..(MaxTasks + 1) :
       IF IsDynamicTask(task_id, slave.total_num_terms)
         THEN /\ Len(slave.ops_num_table_) < MaxTasks
              /\ SlaveStep([slave EXCEPT
                    !.block_site_ops_ = Append(@, BuiltOp("block_site", slave, task_id)),
                    !.site_block_ops_ = Append(@, BuiltOp("site_block", slave, task_id)),
                    !.ops_num_table_ = Append(@, task_id),
                    !.built = @ + 1,
                    !.task_id = task_id,
                    !.sent = << <<"send", task_id, "multiplication_res">> >>])
         ELSE SlaveStep([slave EXCEPT !.pc = "static", !.task_id = task_id,
                                      !.total_num_terms = 0, !.sent = << >>])

\* The loop of SlaveLanczosSolver_ (lines 769-774) with
\* WorkForStaticHamiltonianMultiplyState_ (875-934) up to its MPI_Barrier, in
\* which the worker waits for the other ranks; when the loop ends the pass of
\* the loop of Execute on the lanczos order ends.
WorkForStaticHamiltonianMultiplyState_ ==
  /\ slave.pc = "static"
  /\ \E order \in Orders :
       IF order = "lanczos_finish"
         THEN SlaveStep(Looped([slave EXCEPT !.last = order, !.task_id = 0,
                                              !.sent = << >>],
                               "lanczos"))
         ELSE SlaveAssert(order = "lanczos_mat_vec_static",
                          [slave EXCEPT
                             !.pc = "barrier",
                             !.last = order,
                             !.task_id = 0,
                             !.sent = BeforeBarrier(
                                        StaticEvents(Len(slave.block_site_ops_),
                                                     slave.id_))])

\* MPI_Barrier returns and WorkForStaticHamiltonianMultiplyState_ runs to its
\* end (lines 925-933): sent holds the events of the whole call.
SlaveStaticBarrier ==
  /\ slave.pc = "barrier"
  /\ SlaveStep([slave EXCEPT
        !.pc = "static",
        !.sent = StaticEvents(Len(slave.block_site_ops_), slave.id_)])

\* A worker of rank id_ constructed (lines 589-597) in a debug or a release
\* build.
SlaveInit ==
  /\ size_ = 0
  /\ raw_data_ = << >>
  /\ center_ = kUncentralizedCenterIdx
  /\ tens_cano_type_ = << >>
  /\ disk = << >>
  /\ tenvec_cp = << >>
  /\ ndebug \in BOOLEAN
  /\ status = "ok"
  /\ lastOp = NoOp
  /\ dumpedBy = NoOp
  /\ snap = << >>
  /\ NoExecutor
  /\ NoSolver
  /\ NoMultiply
  /\ NoAlgebra
  /\ \E id \in 1..MaxWorkers :
       slave = [pc |-> "INITED", exec_status |-> "INITED", id_ |-> id,
                dir_ |-> "r", l_site_ |-> 0, r_site_ |-> 0,
                block_site_ops_ |-> << >>, site_block_ops_ |-> << >>,
                ops_num_table_ |-> << >>, task_num |-> 0, total_num_terms |-> 0,
                task_id |-> 0, orders |-> 0, built |-> 0,
                id_sends |-> 0, exit_code |-> 0, last |-> "constructed",
                sent |-> << >>]

SlaveNext ==
  \/ SlaveExecuteStart
  \/ SlaveFirstOrder
  \/ SlaveDMRGInit_
  \/ SlaveGrowTask
  \/ SlaveLanczosOrder
  \/ MPISVDSlave
  \/ WorkForGrowLeftBlockOps_
  \/ WorkForGrowRightBlockOps_
  \/ SlaveProgramFinal
  \/ SlaveUnknownOrder
  \/ WorkForDynamicHamiltonianMultiplyState_
  \/ SlaveDynamicTask
  \/ WorkForStaticHamiltonianMultiplyState_
  \/ SlaveStaticBarrier

SpecSlave == SlaveInit /\ [][SlaveNext]_vars

\* The three caches of a worker.
Caches(z) == <<z.block_site_ops_, z.site_block_ops_, z.ops_num_table_>>

\* C23: the caches are emptied when the dynamic phase of a lanczos order
\* starts, before any of its tasks; in the dynamic and static phases and the
\* orders after them the caches hold only operators built in the latest
\* lanczos order, for its bond; the static handler and the grow handlers leave
\* the caches as they are.
C23_CachesOfLatestBond ==
  [][LET z == slave
         y == slave'
     IN /\ (z.pc = "solver" /\ y.pc = "dynamic")
             => Caches(y) = << << >>, << >>, << >> >>
        /\ y.pc \in {"dynamic", "static", "barrier", "main", "FINISH"}
             => /\ \A i \in DOMAIN y.block_site_ops_ :
                     /\ y.block_site_ops_[i].order = y.orders
                     /\ y.block_site_ops_[i].l_site = y.l_site_
                /\ \A i \in DOMAIN y.site_block_ops_ :
                     /\ y.site_block_ops_[i].order = y.orders
                     /\ y.site_block_ops_[i].l_site = y.l_site_
                /\ Len(y.ops_num_table_) = Len(y.block_site_ops_)
                /\ Len(y.ops_num_table_) = Len(y.site_block_ops_)
        /\ (z.pc \in {"static", "barrier"}
              \/ (z.pc = "main" /\ y.pc \in {"main", "FINISH"}))
             => Caches(y) = Caches(z)
    ]_vars

\* After a second lanczos order that built fewer operators than both orders
\* together, the worker has served a grow order from its caches.
C23_Witness ==
  /\ slave.pc = "main"
  /\ slave.orders = 2
  /\ slave.built = 2
  /\ Len(slave.block_site_ops_) = 1
  /\ slave.last = "growing_left_env"
  /\ Len(slave.sent) = 1

(***************************************************************************)
(* Properties of the sweep executor: files, residency, references.         *)
(***************************************************************************)
\* The group files LoadRelatedTensSweep_ reads for a bond: those of both sides
\* at the first bond of a pass, otherwise the one ahead of the bond.
ReadKeys(dir, l_site, r_site, lb, rb, n) ==
  IF dir = "r"
    THEN IF l_site = lb THEN {<<"l", l_site>>, <<"r", (n - 1) - r_site>>}
         ELSE {<<"r", (n - 1) - r_site>>}
    ELSE IF r_site = rb THEN {<<"r", (n - 1) - r_site>>, <<"l", l_site>>}
         ELSE {<<"l", l_site>>}

\* C24: whenever LoadRelatedTensSweep_ is about to run, in any sweep, every
\* group file it reads exists, and so does the one it removes after reading;
\* no load ever fails.
C24_ReadsFindFiles ==
  /\ pc # "failed"
  /\ pc = "load"
       => /\ \A key \in ReadKeys(dir_, l_site_, r_site_, left_boundary_,
                                   right_boundary_, N_) : temp[key] # Null
          /\ \A key \in RemovedKeys(dir_, l_site_, (N_ - 1) - r_site_) :
               /\ key \in ReadKeys(dir_, l_site_, r_site_, left_boundary_,
                                    right_boundary_, N_)
               /\ temp[key] # Null

\* C24, as stated with its assumption: every group file LoadRelatedTensSweep_
\* reads is the left group of the left boundary, a right group the first
\* right-moving pass reads (block lengths N-rb..N-2-lb), or a file a sweep
\* step writes (line 492: left groups lb+1..rb-1; line 500: right groups
\* N-rb..N-2-lb), so that this initialization is enough for no read to miss.
\* The first bond of a left-moving pass reads ("r", N-1-rb) at line 547.
C24_ReadsWithinAssumption ==
  LET lb == left_boundary_
      rb == right_boundary_
      assumed == {<<"l", lb>>}
                   \cup {<<"r", k>> : k \in (N_ - rb)..(N_ - 2 - lb)}
      written == {<<"l", k>> : k \in (lb + 1)..(rb - 1)}
                   \cup {<<"r", k>> : k \in (N_ - rb)..(N_ - 2 - lb)}
  IN pc = "load"
       => ReadKeys(dir_, l_site_, r_site_, lb, rb, N_) \subseteq assumed \cup written

\* The second sweep is about to load for the first bond of its left-moving
\* pass: it reads the right group of the right boundary and reads and removes
\* the left group the right-moving pass wrote.
C24_Witness ==
  /\ pc = "load"
  /\ sweep = 2
  /\ dir_ = "l"
  /\ r_site_ = right_boundary_
  /\ right_boundary_ - left_boundary_ >= 2
  /\ temp[<<"r", (N_ - 1) - r_site_>>] # Null
  /\ temp[<<"l", l_site_>>] # Null
  /\ temp[<<"l", l_site_>>][1].of[l_site_][1] > 0

\* The sites whose tensor is in memory.
ResidentSites == {i \in Sites : raw_data_[i] # Null}

\* C25: while TwoSiteUpdate_ runs (and from the load to the dump around it)
\* exactly the tensors of l_site_ and r_site_ are resident; between bond steps
\* exactly one is, and when a bond step is about to load it is the site of
\* the bond that LoadRelatedTensSweep_ does not load, so that the step loads
\* one tensor that is not resident and DumpRelatedTensSweep_ releases one.
C25_TwoResident ==
  /\ pc # "failed"
  /\ pc \in {"assemble", "update", "dump"}
       => /\ ResidentSites = {l_site_, r_site_}
          /\ Cardinality(ResidentSites) = 2
  /\ pc \in {"sweep_loop", "r_loop", "l_loop", "load"}
       => Cardinality(ResidentSites) = 1
  /\ pc = "load"
       => LET site == LoadedSite(dir_, l_site_, r_site_, left_boundary_,
                                 right_boundary_)
          IN /\ raw_data_[site] = Null
             /\ ResidentSites = {l_site_, r_site_} \ {site}

\* In the second sweep the left-moving pass is about to update a bond that is
\* not the first of the pass: its left site was loaded, its right site kept.
C25_Witness ==
  /\ pc = "update"
  /\ sweep = 2
  /\ dir_ = "l"
  /\ r_site_ < right_boundary_
  /\ ResidentSites = {l_site_, r_site_}

\* The tensor the file of site i is to hold after `sw` sweeps between lb and
\* rb, each of nb = rb - lb - 1 bonds per pass, the k-th update of the run
\* storing UpdatedTens(k, dir): site lb was last touched by the first bond of
\* the last right-moving pass, site lb + 1 is the left site of the last bond of
\* the last left-moving pass, and a site i in lb+2..rb the right site of the
\* bond (i-1, i) of that pass; the other sites are never touched.
PersistedTen(i, lb, rb, sw) ==
  LET nb == rb - lb - 1
      before == 2 * nb * (sw - 1)
  IN IF nb <= 0 \/ sw <= 0 \/ i < lb \/ i > rb THEN InitialTen
     ELSE IF i = lb THEN UpdatedTens(before + 1, "r").l
     ELSE IF i = lb + 1 THEN UpdatedTens(before + 2 * nb, "l").l
     ELSE UpdatedTens(before + nb + (rb - i) + 1, "l").r

\* The steps exec_status takes: Execute sets EXEING at its start and FINISH at
\* its end.
StatusStep ==
  exec_status' # exec_status
    => \/ exec_status = "INITED" /\ exec_status' = "EXEING"
       \/ exec_status = "EXEING" /\ exec_status' = "FINISH"

\* C26: exec_status only steps from INITED to EXEING and from EXEING to
\* FINISH; it is FINISH exactly when Execute has returned, and then no site
\* tensor is in memory and the file of every site holds the tensor the last
\* bond update touching that site assigned (the initial one for a site no
\* update touched).
C26_PersistedAtFinish ==
  /\ [](/\ pc # "failed"
        /\ exec_status = "INITED" <=> pc = "constructed"
        /\ exec_status = "FINISH" <=> pc = "done"
        /\ pc = "done"
             => /\ ResidentSites = {}
                /\ \A i \in Sites :
                     disk[GenMPSTenName(kMpsPath, i)] =
                       Ptr(PersistedTen(i, left_boundary_, right_boundary_,
                                        sweeps)))
  /\ [][StatusStep]_vars

\* Execute has returned after two sweeps over three bonds a pass: the file of
\* the right boundary holds the right factor of the first left-moving update
\* of the second sweep.
C26_Witness ==
  /\ pc = "done"
  /\ exec_status = "FINISH"
  /\ sweeps = 2
  /\ right_boundary_ - left_boundary_ = 3
  /\ tick = 8
  /\ ResidentSites = {}
  /\ disk[GenMPSTenName(kMpsPath, right_boundary_)] = Ptr(<<7, "Vt">>)

\* A term's reference into a left or right group points at an operator the
\* group holds now.
LiveRef(grps, ref) == ref[1] \in DOMAIN grps /\ ref[2] < grps[ref[1]].n

\* Some term points at an operator of a group that was cleared.
DanglingTerms ==
  {t \in 1..Len(hamiltonian_terms_) :
     \/ ~LiveRef(lopg_vec_, hamiltonian_terms_[t].lop)
     \/ ~LiveRef(ropg_vec_, hamiltonian_terms_[t].rop)}

\* C27: whenever TwoSiteUpdate_ is about to hand the term group to the Lanczos
\* solver, every term points at an operator of lopg_vec_[l_site_] and at one of
\* ropg_vec_[N_-1-r_site_], both groups read for this bond; the terms that
\* DumpRelatedTensSweep_ leaves dangling exist only while no solver runs
\* (between the dump and the next SetEffectiveHamiltonianTerms_).
C27_TermsPointAtLoadedGroups ==
  /\ pc = "update"
       => /\ lopg_vec_[l_site_].ok /\ lopg_vec_[l_site_].n > 0
          /\ ropg_vec_[(N_ - 1) - r_site_].ok /\ ropg_vec_[(N_ - 1) - r_site_].n > 0
          /\ hamiltonian_terms_ # << >>
          /\ DanglingTerms = {}
          /\ \A t \in 1..Len(hamiltonian_terms_) :
               /\ hamiltonian_terms_[t].lop[1] = l_site_
               /\ hamiltonian_terms_[t].rop[1] = (N_ - 1) - r_site_
  /\ DanglingTerms # {} => pc \in {"r_loop", "l_loop", "sweep_loop", "load",
                                    "assemble", "done"}

\* The solver is about to run on a bond of the second sweep's left-moving
\* pass with several terms, none dangling, although the previous bond's dump
\* cleared the groups its terms pointed at.
C27_Witness ==
  /\ pc = "update"
  /\ sweep = 2
  /\ dir_ = "l"
  /\ r_site_ < right_boundary_
  /\ Len(hamiltonian_terms_) > 1
  /\ DanglingTerms = {}
  /\ lopg_vec_[l_site_ + 1] = EmptyGroup

\* How often the sweep recorded in trace updated the bond (l, l+1) in the pass
\* moving in direction dir.
BondUpdates(l, dir) ==
  Cardinality({k \in 1..Len(trace) : trace[k] = <<"update", l, l + 1, dir>>})

\* C30: when a sweep has returned, every bond (l, l+1) with
\* left_boundary_ <= l < right_boundary_ was updated at least once in it: the
\* bond at the left boundary only moving right, the bond at the right boundary
\* only moving left, every other bond once in each pass, which makes
\* 2 * (right_boundary_ - left_boundary_ - 1) updates.
C30_EveryBondUpdated ==
  (pc \in {"sweep_loop", "done"} /\ sweep > 1)
    => /\ \A l \in left_boundary_..(right_boundary_ - 1) :
            BondUpdates(l, "r") + BondUpdates(l, "l") >= 1
       /\ BondUpdates(left_boundary_, "l") = 0
       /\ BondUpdates(right_boundary_ - 1, "r") = 0
       /\ \A l \in (left_boundary_ + 1)..(right_boundary_ - 2) :
            BondUpdates(l, "r") = 1 /\ BondUpdates(l, "l") = 1
       /\ Cardinality({k \in 1..Len(trace) : trace[k][1] = "update"})
            = 2 * (right_boundary_ - left_boundary_ - 1)

(***************************************************************************)
(* Properties of the worker's order protocol.                              *)
(***************************************************************************)
\* The first steps of Execute: the status is set, then on program_start the
\* worker sends its id and enters the initialization, on any other order the
\* process exits.
FirstOrderStep ==
  LET z == slave
      y == slave'
  IN /\ (z.pc = "INITED" /\ y # z)
          => y = [z EXCEPT !.pc = "start", !.exec_status = "EXEING"]
     /\ (z.pc = "start" /\ y # z)
          => IF y.last = "program_start"
               THEN /\ y.pc = "init"
                    /\ y.sent = << <<"send", 2 * z.id_, z.id_>> >>
                    /\ y.id_sends = 1
               ELSE /\ y.pc = "exited"
                    /\ y.exit_code = 1
                    /\ y.sent = << >>
                    /\ y.id_sends = 0
     /\ z.pc = "exited" => y = z
     /\ z.pc # "start" => y.id_sends = z.id_sends

\* C31: the first order a worker receives decides: on program_start it sends
\* its id to the master, once in the whole run, and enters the initialization
\* phase; on any other order the process exits with code 1, having sent
\* nothing, and never reaches status FINISH.
C31_StartHandshake ==
  /\ [](/\ slave.pc = "exited"
             => /\ slave.last # "program_start"
                /\ slave.exit_code = 1
                /\ slave.id_sends = 0
                /\ slave.sent = << >>
                /\ slave.exec_status # "FINISH"
        /\ slave.pc \notin {"INITED", "start", "exited"}
             => slave.id_sends = 1 /\ slave.exit_code = 0)
  /\ [][FirstOrderStep]_vars

\* A worker whose first order was program_start has sent its id and stands in
\* the initialization phase.
C31_Witness ==
  /\ slave.pc = "init"
  /\ slave.last = "program_start"
  /\ slave.id_ = 2
  /\ slave.sent = << <<"send", 4, 2>> >>
  /\ slave.id_sends = 1

\* One step of a worker seen from the loop of Execute.
MainLoopStep ==
  LET z == slave
      y == slave'
  IN /\ (z.pc = "main" /\ y # z)
          => /\ y.pc \in {"main", "solver", "FINISH"}
             /\ y.pc = "FINISH" <=> y.last = "program_final"
             /\ y.pc = "solver" <=> y.last = "lanczos"
             /\ y.last \notin SwitchCases
                  => y = [z EXCEPT !.last = y.last, !.sent = << >>]
     \* a lanczos order is dispatched from the head of the loop only, and the
     \* loop is back at its head only when the handler has returned
     /\ y.orders # z.orders => z.pc = "main"
     /\ (z.pc \in {"solver", "dynamic", "static", "barrier"}
           /\ y.pc \in {"main", "FINISH"})
          => z.pc = "static" /\ y.last = "lanczos_finish" /\ y.pc = "main"
     /\ z.pc = "FINISH" => y = z

\* C32: past the initialization a worker takes the orders of its loop one at
\* a time, the next one only when the handler of the previous one has
\* returned; it leaves the loop and sets FINISH exactly on program_final and
\* takes no order after it; an order without a case of the switch runs no
\* handler, sends nothing, changes nothing and leaves the worker listening.
C32_OneOrderAtATime ==
  /\ [](/\ slave.exec_status = "FINISH" <=> slave.pc = "FINISH"
        /\ slave.pc = "FINISH" => slave.last = "program_final")
  /\ [][MainLoopStep]_vars

\* A worker has finished on program_final after a lanczos order in which it
\* built two operators.
C32_Witness ==
  /\ slave.pc = "FINISH"
  /\ slave.exec_status = "FINISH"
  /\ slave.last = "program_final"
  /\ slave.orders = 1
  /\ Len(slave.ops_num_table_) = 2

\* One step of a worker inside DMRGInit_ or SlaveLanczosSolver_; `expected`
\* is the order the assertion of the phase asks for.
SubProtocolStep ==
  LET z == slave
      y == slave'
      expected == IF z.pc = "init" THEN "init_grow_env_grow"
                  ELSE IF z.pc = "solver" THEN "lanczos_mat_vec_dynamic"
                  ELSE "lanczos_mat_vec_static"
      closing == IF z.pc = "init" THEN "init_grow_env_finish"
                 ELSE IF z.pc = "static" THEN "lanczos_finish" ELSE "none"
  IN /\ (z.pc \in {"init", "solver", "static"} /\ y # z)
          => IF y.last = closing
               THEN y.pc = "main"
               ELSE IF y.last = expected \/ ndebug
                 THEN y.pc = (IF z.pc = "init" THEN (IF y.task_num = 0 THEN "init"
                                                     ELSE "grow_tasks")
                              ELSE IF z.pc = "solver" THEN "dynamic" ELSE "barrier")
                 ELSE y.pc = "aborted"
     \* the phases of a lanczos order follow each other: dynamic once, then
     \* static
     /\ (y.pc = "solver" /\ y # z) => z.pc = "main"
     /\ y.pc = "dynamic" => z.pc \in {"solver", "dynamic"}
     /\ y.pc = "static" => z.pc \in {"dynamic", "static", "barrier"}
     /\ y.pc = "barrier" => z.pc \in {"static", "barrier"}
     /\ (z.pc = "barrier" /\ y # z)
          => /\ y.pc = "static"
             /\ y.last = z.last
             /\ y.sent = StaticEvents(Len(z.block_site_ops_), z.id_)
     /\ (z.pc = "dynamic" /\ y # z) => y.pc \in {"dynamic", "static"} /\ y.last = z.last
     /\ z.pc = "grow_tasks" => y.pc \in {"grow_tasks", "init"} /\ y.last = z.last
     /\ z.pc = "aborted" => y = z

\* C33: DMRGInit_ takes init_grow_env_grow orders until init_grow_env_finish;
\* a lanczos order takes one lanczos_mat_vec_dynamic, then
\* lanczos_mat_vec_static orders until lanczos_finish, so a static product is
\* only computed after the dynamic one of the same lanczos order; any other
\* order inside these phases fails an assertion: the debug build aborts there.
C33_FixedSubProtocols ==
  /\ [](slave.pc = "aborted" => ~ndebug)
  /\ [][SubProtocolStep]_vars

\* A debug build has aborted on a second lanczos_mat_vec_dynamic order, which
\* came after the dynamic phase in which the worker built an operator.
C33_Witness ==
  /\ slave.pc = "aborted"
  /\ ~ndebug
  /\ slave.orders = 1
  /\ slave.last = "lanczos_mat_vec_dynamic"
  /\ Len(slave.ops_num_table_) = 1

\* The caches of worker state z are aligned: equal lengths, and entry i of
\* each operator cache was built for the task ops_num_table_[i].
CachesAligned(z) ==
  /\ Len(z.block_site_ops_) = Len(z.ops_num_table_)
  /\ Len(z.site_block_ops_) = Len(z.ops_num_table_)
  /\ \A i \in DOMAIN z.ops_num_table_ :
       /\ z.block_site_ops_[i].side = "block_site"
       /\ z.block_site_ops_[i].task = z.ops_num_table_[i]
       /\ z.site_block_ops_[i].side = "site_block"
       /\ z.site_block_ops_[i].task = z.ops_num_table_[i]

\* A task of the dynamic phase puts its id and its two operators at the end
\* of the caches, whether or not the id is in the table already; the table is
\* emptied when the dynamic phase starts and nothing else changes the caches.
CacheStep ==
  LET z == slave
      y == slave'
  IN /\ (z.pc = "dynamic" /\ y.pc = "dynamic" /\ y # z)
          => /\ y.ops_num_table_ = Append(z.ops_num_table_, y.task_id)
             /\ SubSeq(y.block_site_ops_, 1, Len(z.block_site_ops_)) = z.block_site_ops_
             /\ SubSeq(y.site_block_ops_, 1, Len(z.site_block_ops_)) = z.site_block_ops_
     /\ (z.pc = "solver" /\ y.pc = "dynamic") => y.ops_num_table_ = << >>
     /\ ~(z.pc = "dynamic" /\ y.pc = "dynamic") /\ ~(z.pc = "solver" /\ y.pc = "dynamic")
          => Caches(y) = Caches(z)

\* C34: at every order boundary (and at every step between) the three caches
\* have the same length and ops_num_table_[i] is the task id the entries i of
\* block_site_ops_ and site_block_ops_ were built for; the table of a bond is
\* the sequence of the task ids received in it, in the order of reception,
\* an id received twice standing in it twice.
C34_CachesAligned ==
  /\ [](slave.pc # "none" => CachesAligned(slave))
  /\ [][CacheStep]_vars

\* C34, as stated: besides the alignment, no task id occurs twice in the table
\* of a bond.  The worker stores an id it receives a second time (lines
\* 797-852 never look it up in the table).
C34_NoTaskTwice ==
  slave.pc # "none"
    => CachesAligned(slave) /\ NoRepeat(slave.ops_num_table_)

\* Back at the head of the order loop after a lanczos order whose tasks came
\* as 1, then 0.
C34_Witness ==
  /\ slave.pc = "main"
  /\ slave.last = "lanczos_finish"
  /\ slave.ops_num_table_ = <<1, 0>>
  /\ CachesAligned(slave)
  /\ NoRepeat(slave.ops_num_table_)

\* How often the events of sent pass the barrier.
Barriers(z) == Cardinality({i \in DOMAIN z.sent : z.sent[i] = <<"barrier">>})

\* The two steps that serve a static matrix-vector order: up to the barrier,
\* and from the barrier to the end of the handler.
StaticStep ==
  LET z == slave
      y == slave'
  IN /\ (z.pc = "static" /\ y.pc = "barrier")
          => y.sent = IF Len(z.block_site_ops_) > 0
                        THEN << <<"send", z.id_, "sub_sum">> >> ELSE << >>
     /\ z.pc = "barrier"
          => \/ y = z
             \/ /\ y.pc = "static"
                /\ Barriers(y) = 1
                /\ IF Len(z.block_site_ops_) > 0
                     THEN /\ Len(y.sent) = 3
                          /\ y.sent[1] = <<"send", z.id_, "sub_sum">>
                          /\ y.sent[2] = <<"barrier">>
                          /\ y.sent[3] = <<"send", z.id_, "sub_overlap">>
                     ELSE y.sent = << <<"barrier">> >>

\* C35: serving a static matrix-vector order a worker enters the barrier
\* exactly once, with or without cached terms; with cached terms it sends its
\* partial sum before the barrier and its partial overlap after it, without
\* cached terms it sends nothing; no other step enters the barrier.
C35_BarrierOnce ==
  /\ []((slave.pc # "none" /\ Barriers(slave) > 0)
          => slave.pc = "static" /\ Barriers(slave) = 1)
  /\ [][StaticStep]_vars

\* A worker that was given no task in the dynamic phase has served a static
\* order: it entered the barrier and sent nothing.
C35_Witness ==
  /\ slave.pc = "static"
  /\ slave.last = "lanczos_mat_vec_static"
  /\ slave.block_site_ops_ = << >>
  /\ slave.sent = << <<"barrier">> >>

\* One pass of a task loop: the received id is a task exactly when it is
\* below the number of tasks, and a task sends one result tagged with its id.
TaskLoopStep ==
  LET z == slave
      y == slave'
  IN /\ (z.pc = "dynamic" /\ y # z)
          => IF y.task_id < z.total_num_terms
               THEN /\ y.pc = "dynamic"
                    /\ y.sent = << <<"send", y.task_id, "multiplication_res">> >>
               ELSE /\ y.pc = "static"
                    /\ y.sent = << >>
     /\ (z.pc = "grow_tasks" /\ y # z)
          => IF y.task_id < z.task_num
               THEN /\ y.pc = "grow_tasks"
                    /\ y.sent = << <<"send", y.task_id, "res">> >>
               ELSE /\ y.pc = "init"
                    /\ y.sent = << >>

\* C36: in the dynamic phase, as in the initial growing phase, a received id
\* is processed exactly when it is below the number of tasks
\* (total_num_terms, task_num) and any other id ends the phase; each processed
\* task sends exactly one result, tagged with its id.
C36_TaskIdConvention == [][TaskLoopStep]_vars

(***************************************************************************)
(* Further properties of the MPS bookkeeping.                              *)
(***************************************************************************)
\* C37: no position is LEFT with its right neighbour RIGHT, position 0 is
\* never RIGHT and position N-1 never LEFT; hence after a Centralize(t) that
\* returned the type of position t is NONE.
C37_NoLeftNextToRight ==
  /\ \A i \in Sites :
       i + 1 \in Sites => ~(tens_cano_type_[i] = LEFT /\ tens_cano_type_[i + 1] = RIGHT)
  /\ \A i \in Sites :
       /\ i = 0 => tens_cano_type_[i] # RIGHT
       /\ i = size_ - 1 => tens_cano_type_[i] # LEFT
  /\ (lastOp.op = "Centralize" /\ status = "ok")
       => /\ center_ = lastOp.idx
          /\ tens_cano_type_[lastOp.idx] = NONE

\* Centralize(1) has returned on an MPS of three sites that was centred at 0:
\* position 1, RIGHT before the call, is NONE between a LEFT and a RIGHT.
C37_Witness ==
  /\ lastOp.op = "Centralize"
  /\ status = "ok"
  /\ size_ = 3
  /\ lastOp.pre = 0
  /\ center_ = 1
  /\ tens_cano_type_ = [i \in Sites |-> IF i = 0 THEN LEFT ELSE IF i = 1 THEN NONE ELSE RIGHT]

(***************************************************************************)
(* TruncateMPS.                                                            *)
(***************************************************************************)
\* The bonds TruncateMPS splits, in the order it splits them.
TruncatedBonds(steps) == SelectSeq(steps, LAMBDA e : e[1] = "T")

\* C38: TruncateMPS on an MPS of N >= 2 sites first centralizes to position 0
\* (right steps only, all before the first truncation), then truncates the bonds
\* 0, 1, ..., N-2 in ascending order, and when it returns the centre is
\* uncentralized and every position's canonical type is NONE, whatever the state
\* it started from.
C38_TruncateDiscardsMetadata ==
  (lastOp.op = "TruncateMPS" /\ size_ >= 2) =>
    /\ status = "ok"
    /\ center_ = kUncentralizedCenterIdx
    /\ \A i \in Sites : tens_cano_type_[i] = NONE
    /\ LET steps == lastOp.steps
           nc == Len(steps) - (size_ - 1)
       IN /\ nc >= 0
          /\ \A k \in 1..nc : steps[k][1] = "R"
          /\ TruncatedBonds(steps) = [k \in 1..(size_ - 1) |-> <<"T", k - 1>>]
          /\ \A k \in 1..(size_ - 1) : steps[nc + k] = <<"T", k - 1>>

\* A truncation of three sites that had to bring the centre from the right end
\* to position 0 first.
C38_Witness ==
  /\ lastOp.op = "TruncateMPS"
  /\ status = "ok"
  /\ size_ = 3
  /\ lastOp.pre = 2
  /\ lastOp.steps = << <<"R", 2>>, <<"R", 1>>, <<"T", 0>>, <<"T", 1>> >>
  /\ center_ = kUncentralizedCenterIdx
  /\ \A i \in Sites : tens_cano_type_[i] = NONE

(***************************************************************************)
(* The MPO generator's algebra of coefficient and operator labels          *)
(* (coef_op_alg.h:32-224, 422-434, 503-524).  A CoefRepr is its            *)
(* coef_label_list_; an OpRepr is the record of its coef_repr_list_ and    *)
(* its op_label_list_.  Vector positions are counted from 0 as in the      *)
(* source.                                                                 *)
(***************************************************************************)
kIdCoefLabel == 0
kIdOpLabel == 0

CoefLabels == 0..MaxCoefLabel
OpLabels == 0..MaxOpLabel

\* v[pos] for a position counted from 0.
At(v, pos) == v[pos + 1]

\* std::vector::erase(begin() + pos).
Erase(v, pos) == [k \in 1..(Len(v) - 1) |-> IF k <= pos THEN v[k] ELSE v[k + 1]]

\* ElemInVec (coef_op_alg.h:504-514), from position i on: the first position
\* holding e, or -1.
RECURSIVE ElemInVecFrom(_, _, _)
ElemInVecFrom(e, v, i) ==
  IF ~(i < Len(v)) THEN -1
  ELSE IF e = At(v, i) THEN i
  ELSE ElemInVecFrom(e, v, i + 1)

ElemInVec(e, v) == ElemInVecFrom(e, v, 0)

\* ConcatenateTwoVec (coef_op_alg.h:517-524).
ConcatenateTwoVec(va, vb) == va \o vb

\* CoefRepr(void) and CoefRepr(coef_label) (coef_op_alg.h:42-46, 94-95).
kNullCoefRepr == << >>
CoefRepr(coef_label) == <<coef_label>>
kIdCoefRepr == CoefRepr(kIdCoefLabel)

\* The loop of CoefRepr::operator== (coef_op_alg.h:69-77), from element i of
\* the left side on, rhs being what is left of the copy of the right side.
RECURSIVE CoefEqLoop(_, _, _)
CoefEqLoop(lhs, i, rhs) ==
  IF ~(i < Len(lhs)) THEN rhs = << >>
  ELSE LET pos_in_rhs == ElemInVec(At(lhs, i), rhs)
       IN IF pos_in_rhs = -1 THEN FALSE
          ELSE CoefEqLoop(lhs, i + 1, Erase(rhs, pos_in_rhs))

\* A mutant: the two label lists are compared position by position.
CoefEq_Ordered(lhs, rhs) == lhs = rhs

\* CoefRepr::operator== (coef_op_alg.h:63-79).
CoefEq(lhs, rhs) ==
  IF Len(lhs) # Len(rhs) THEN FALSE
  ELSE CoefEqLoop(lhs, 0, rhs)

\* CoefRepr::operator+ (coef_op_alg.h:85-87).
CoefAdd(lhs, rhs) == ConcatenateTwoVec(lhs, rhs)

\* OpRepr(void) and OpRepr(op_label) (coef_op_alg.h:112-117, 203-204).
kNullOpRepr == [coef_repr_list_ |-> << >>, op_label_list_ |-> << >>]
OpReprOf(coef_repr, op_label) ==
  [coef_repr_list_ |-> <<coef_repr>>, op_label_list_ |-> <<op_label>>]
kIdOpRepr == OpReprOf(kIdCoefRepr, kIdOpLabel)

\* The loop shared by OpRepr(coef_reprs, op_labels) and OpRepr::operator+
\* (coef_op_alg.h:127-137, 184-194), from term i of the added lists on: a label
\* already there has the coefficient added to its own, a new one is appended.
RECURSIVE MergeTerms(_, _, _, _)
MergeTerms(acc, coef_reprs, op_labels, i) ==
  IF ~(i < Len(op_labels)) THEN acc
  ELSE LET idx == ElemInVec(At(op_labels, i), acc.op_label_list_)
       IN MergeTerms(
            IF idx = -1
              THEN [coef_repr_list_ |-> Append(acc.coef_repr_list_, At(coef_reprs, i)),
                    op_label_list_ |-> Append(acc.op_label_list_, At(op_labels, i))]
              ELSE [acc EXCEPT !.coef_repr_list_[idx + 1] = CoefAdd(@, At(coef_reprs, i))],
            coef_reprs, op_labels, i + 1)

\* OpRepr(coef_reprs, op_labels) (coef_op_alg.h:124-139).
OpRepr(coef_reprs, op_labels) == MergeTerms(kNullOpRepr, coef_reprs, op_labels, 0)

\* OpRepr(op_labels) (coef_op_alg.h:141-142).
OpReprOfLabels(op_labels) ==
  OpRepr([k \in 1..Len(op_labels) |-> kIdCoefRepr], op_labels)

\* The loop of OpRepr::operator== (coef_op_alg.h:160-173), from term i of the
\* left side on, rhs being what is left of the copy of the right side.
RECURSIVE OpEqLoop(_, _, _)
OpEqLoop(lhs, i, rhs) ==
  IF ~(i < Len(lhs.op_label_list_)) THEN rhs.op_label_list_ = << >>
  ELSE LET pos_in_rhs == ElemInVec(At(lhs.op_label_list_, i), rhs.op_label_list_)
       IN IF pos_in_rhs = -1 THEN FALSE
          ELSE IF ~CoefEq(At(lhs.coef_repr_list_, i), At(rhs.coef_repr_list_, pos_in_rhs))
            THEN FALSE
          ELSE OpEqLoop(lhs, i + 1,
                        [coef_repr_list_ |-> Erase(rhs.coef_repr_list_, pos_in_rhs),
                         op_label_list_ |-> Erase(rhs.op_label_list_, pos_in_rhs)])

\* OpRepr::operator== (coef_op_alg.h:152-174).
OpEq(lhs, rhs) ==
  IF Len(lhs.op_label_list_) # Len(rhs.op_label_list_) THEN FALSE
  ELSE OpEqLoop(lhs, 0, rhs)

\* OpRepr::operator+ (coef_op_alg.h:180-196): the merged lists go through
\* the constructor again (line 195).
OpAdd(lhs, rhs) ==
  LET m == MergeTerms(lhs, rhs.coef_repr_list_, rhs.op_label_list_, 0)
  IN OpRepr(m.coef_repr_list_, m.op_label_list_)

\* A mutant: a sum of several terms is always split at its first coefficient.
SeparateCoefAndBase_FirstCoef(op_repr) ==
  LET term_num == Len(op_repr.coef_repr_list_)
  IN IF term_num = 0 THEN <<kNullCoefRepr, kNullOpRepr>>
     ELSE <<At(op_repr.coef_repr_list_, 0), OpReprOfLabels(op_repr.op_label_list_)>>

\* SeparateCoefAndBase (coef_op_alg.h:207-224): <<first, second>> of the pair.
SeparateCoefAndBase(op_repr) ==
  LET term_num == Len(op_repr.coef_repr_list_)
  IN IF term_num = 0 THEN <<kNullCoefRepr, kNullOpRepr>>
     ELSE IF term_num = 1
       THEN <<At(op_repr.coef_repr_list_, 0),
              OpReprOf(kIdCoefRepr, At(op_repr.op_label_list_, 0))>>
     ELSE LET coef == At(op_repr.coef_repr_list_, 0)
          IN IF \E i \in 1..(term_num - 1) : ~CoefEq(At(op_repr.coef_repr_list_, i), coef)
               THEN <<kIdCoefRepr, op_repr>>
               ELSE <<coef, OpReprOfLabels(op_repr.op_label_list_)>>

\* CoefReprOpReprIncompleteMulti (coef_op_alg.h:423-434): exit is the
\* exit(1) of line 429, val the value returned otherwise.
CoefReprOpReprIncompleteMulti(coef, op) ==
  IF OpEq(op, kNullOpRepr) THEN [exit |-> FALSE, val |-> kNullOpRepr]
  ELSE IF CoefEq(coef, kIdCoefRepr) THEN [exit |-> FALSE, val |-> op]
  ELSE IF \E k \in 1..Len(op.coef_repr_list_) : ~CoefEq(op.coef_repr_list_[k], kIdCoefRepr)
    THEN [exit |-> TRUE, val |-> kNullOpRepr]
  ELSE [exit |-> FALSE,
        val |-> OpRepr([k \in 1..Len(op.coef_repr_list_) |-> coef], op.op_label_list_)]

\* Sequences over S of length 0..n.
SeqsUpTo(S, n) == UNION {[1..k -> S] : k \in 0..n}

\* Label lists without a repeated label.
DistinctSeqs(S, n) ==
  {q \in SeqsUpTo(S, n) : \A i, j \in 1..Len(q) : i # j => q[i] # q[j]}

\* The CoefRepr values of up to MaxCoefLen labels.
CoefOperands == SeqsUpTo(CoefLabels, MaxCoefLen)

\* The label lists of the OpRepr operands, of up to MaxOpTerms terms: the
\* constructors and operator+ never build a list that holds a label twice.
OpLabelLists == DistinctSeqs(OpLabels, MaxOpTerms)

\* The coefficient lists that go with the label list ls, every one taken from C.
CoefLists(ls, C) == [1..Len(ls) -> C]

\* The null coefficient and the coefficients of one label.
UnitCoefs == {kNullCoefRepr} \cup {CoefRepr(l) : l \in CoefLabels}

\* Three CoefRepr operands or three OpRepr operands to compare and to add.
AlgebraInit ==
  /\ size_ = 0
  /\ raw_data_ = << >>
  /\ center_ = kUncentralizedCenterIdx
  /\ tens_cano_type_ = << >>
  /\ disk = << >>
  /\ tenvec_cp = << >>
  /\ ndebug = FALSE
  /\ status = "ok"
  /\ lastOp = NoOp
  /\ dumpedBy = NoOp
  /\ snap = << >>
  /\ NoExecutor
  /\ NoSolver
  /\ NoMultiply
  /\ NoWorker
  /\ \/ \E a \in CoefOperands, b \in CoefOperands, c \in CoefOperands :
          alg = [pc |-> "args", type |-> "CoefRepr", a |-> a, b |-> b, c |-> c,
                 res |-> << >>]
     \/ \E la \in OpLabelLists, lb \in OpLabelLists, lc \in OpLabelLists :
          \E ca \in CoefLists(la, UnitCoefs), cb \in CoefLists(lb, UnitCoefs),
             cc \in CoefLists(lc, UnitCoefs) :
            alg = [pc |-> "args", type |-> "OpRepr", a |-> OpRepr(ca, la),
                   b |-> OpRepr(cb, lb), c |-> OpRepr(cc, lc), res |-> << >>]

\* The comparisons and sums of three CoefRepr operands.
CoefAlgebra ==
  /\ alg.pc = "args"
  /\ alg.type = "CoefRepr"
  /\ LET a == alg.a
         b == alg.b
         c == alg.c
     IN alg' = [alg EXCEPT
                  !.pc = "done",
                  !.res = [eq |-> CoefEq(a, b),
                           ab |-> CoefAdd(a, b),
                           ba |-> CoefAdd(b, a),
                           comm |-> CoefEq(CoefAdd(a, b), CoefAdd(b, a)),
                           assoc |-> CoefEq(CoefAdd(CoefAdd(a, b), c),
                                            CoefAdd(a, CoefAdd(b, c))),
                           null_r |-> CoefEq(CoefAdd(a, kNullCoefRepr), a),
                           null_l |-> CoefEq(CoefAdd(kNullCoefRepr, a), a)]]
  /\ UNCHANGED <<mpsVars, dmrgVars, lanczos, mul, slave>>

\* The comparisons and sums of three OpRepr operands.
OpAlgebra ==
  /\ alg.pc = "args"
  /\ alg.type = "OpRepr"
  /\ LET a == alg.a
         b == alg.b
         c == alg.c
     IN alg' = [alg EXCEPT
                  !.pc = "done",
                  !.res = [eq |-> OpEq(a, b),
                           ab |-> OpAdd(a, b),
                           ba |-> OpAdd(b, a),
                           comm |-> OpEq(OpAdd(a, b), OpAdd(b, a)),
                           assoc |-> OpEq(OpAdd(OpAdd(a, b), c), OpAdd(a, OpAdd(b, c))),
                           null_r |-> OpEq(OpAdd(a, kNullOpRepr), a),
                           null_l |-> OpEq(OpAdd(kNullOpRepr, a), a)]]
  /\ UNCHANGED <<mpsVars, dmrgVars, lanczos, mul, slave>>

AlgebraNext ==
  \/ CoefAlgebra
  \/ OpAlgebra

SpecAlgebra == AlgebraInit /\ [][AlgebraNext]_vars

\* An OpRepr to take apart and to put together again.
SeparateInit ==
  /\ size_ = 0
  /\ raw_data_ = << >>
  /\ center_ = kUncentralizedCenterIdx
  /\ tens_cano_type_ = << >>
  /\ disk = << >>
  /\ tenvec_cp = << >>
  /\ ndebug = FALSE
  /\ status = "ok"
  /\ lastOp = NoOp
  /\ dumpedBy = NoOp
  /\ snap = << >>
  /\ NoExecutor
  /\ NoSolver
  /\ NoMultiply
  /\ NoWorker
  /\ \E ls \in OpLabelLists :
       \E cs \in CoefLists(ls, CoefOperands) :
         alg = [pc |-> "args", x |-> OpRepr(cs, ls), coef |-> kNullCoefRepr,
                base |-> kNullOpRepr, res |-> kNullOpRepr]

\* (c, base) = SeparateCoefAndBase(x).
SeparateCall ==
  /\ alg.pc = "args"
  /\ LET p == SeparateCoefAndBase(alg.x)
     IN alg' = [alg EXCEPT !.pc = "separated", !.coef = p[1], !.base = p[2]]
  /\ UNCHANGED <<mpsVars, dmrgVars, lanczos, mul, slave>>

\* CoefReprOpReprIncompleteMulti(c, base).
MultiCall ==
  /\ alg.pc = "separated"
  /\ LET r == CoefReprOpReprIncompleteMulti(alg.coef, alg.base)
     IN alg' = [alg EXCEPT !.pc = IF r.exit THEN "exited" ELSE "returned",
                           !.res = r.val]
  /\ UNCHANGED <<mpsVars, dmrgVars, lanczos, mul, slave>>

SeparateNext ==
  \/ SeparateCall
  \/ MultiCall

SpecSeparate == SeparateInit /\ [][SeparateNext]_vars

(***************************************************************************)
(* Properties of the label algebra.                                        *)
(***************************************************************************)
\* How often label l stands in the list q.
Count(l, q) == Cardinality({k \in DOMAIN q : q[k] = l})

\* The two lists hold the same labels the same number of times.
SameMultiset(x, y) == \A l \in Range(x) \cup Range(y) : Count(l, x) = Count(l, y)

\* The coefficient an OpRepr holds for a label of its list.
CoefOfLabel(x, l) ==
  x.coef_repr_list_[CHOOSE k \in DOMAIN x.op_label_list_ : x.op_label_list_[k] = l]

\* The same set of operator labels, each with equal coefficients.
SameTerms(x, y) ==
  /\ Range(x.op_label_list_) = Range(y.op_label_list_)
  /\ \A l \in Range(x.op_label_list_) :
       SameMultiset(CoefOfLabel(x, l), CoefOfLabel(y, l))

\* C39: CoefRepr::operator== is multiset equality of the label lists,
\* OpRepr::operator== holds exactly when both sides have the same set of
\* operator labels with equal coefficients per label, and for both types
\* a + b == b + a, (a + b) + c == a + (b + c), and a + null == a == null + a.
C39_OrderInsensitive ==
  alg.pc = "done" =>
    /\ alg.type = "CoefRepr" => (alg.res.eq <=> SameMultiset(alg.a, alg.b))
    /\ alg.type = "OpRepr" => (alg.res.eq <=> SameTerms(alg.a, alg.b))
    /\ alg.res.comm
    /\ alg.res.assoc
    /\ alg.res.null_r
    /\ alg.res.null_l

\* Two OpRepr operands that hold the same two labels in different orders, with
\* different coefficients: the two sums differ as lists and compare equal.
C39_Witness ==
  /\ alg.pc = "done"
  /\ alg.type = "OpRepr"
  /\ Len(alg.a.op_label_list_) = 2
  /\ Len(alg.b.op_label_list_) = 2
  /\ alg.a.op_label_list_ # alg.b.op_label_list_
  /\ alg.res.ab # alg.res.ba
  /\ \E k \in 1..2 : Len(alg.res.ab.coef_repr_list_[k]) = 2
                       /\ alg.res.ab.coef_repr_list_[k][1] # alg.res.ab.coef_repr_list_[k][2]
  /\ ~alg.res.eq
  /\ alg.res.comm

\* C40: for every OpRepr x, if (c, base) = SeparateCoefAndBase(x) then
\* CoefReprOpReprIncompleteMulti(c, base) does not take the exit of line 429
\* and returns a value equal to x.
C40_SeparateMultiRoundTrip ==
  /\ alg.pc # "exited"
  /\ alg.pc = "returned" => OpEq(alg.res, alg.x) /\ OpEq(alg.x, alg.res)

\* A sum of two terms with one common coefficient, written in two orders, went
\* through the round trip with a coefficient that is not the identity.
C40_Witness ==
  /\ alg.pc = "returned"
  /\ Len(alg.x.op_label_list_) = 2
  /\ alg.x.coef_repr_list_[1] # alg.x.coef_repr_list_[2]
  /\ alg.coef = alg.x.coef_repr_list_[1]
  /\ ~CoefEq(alg.coef, kIdCoefRepr)
  /\ alg.res # alg.x

====
